---------------------------- MODULE Spec2Model ----------------------------
(***************************************************************************)
(* A model of the chat-harvester platform adapters (Twitch, YouTube) and   *)
(* of the pure parsing functions they are built from.                      *)
(*                                                                         *)
(* Strings of the program are modelled as sequences of one-character       *)
(* strings, so that slicing, searching, splitting and replacing are        *)
(* computed the way the JavaScript code computes them.                     *)
(***************************************************************************)
EXTENDS Integers, Sequences, FiniteSets, TLC

VARIABLES
    channel,    \* Twitch: this.channel
    posted,     \* Twitch: the messages handed to postChatMessage, in order
    recorded,   \* Twitch: the artifacts handed to recordWebSocket*, in order
    warned,     \* Twitch: the arguments of the calls of this.warn, in order
    calls,      \* Seed: the calls made while envelopes are dispatched, in order
    input,      \* the argument of the function under check
    output,     \* <<>> before the call, <<result>> once it has returned
    cssInjected,\* YouTube: this._cssInjected
    document,   \* YouTube: the children of document.head and of the chat container
    pending     \* YouTube: the handler invocations that are suspended or queued

vars ==
    <<channel, posted, recorded, warned, calls, input, output, cssInjected, document, pending>>

adapterVars == <<channel, posted, recorded, warned>>

(***************************************************************************)
(* JavaScript's null and undefined.  Every character is a one-character    *)
(* string (or, outside ASCII, its code point written "U+XXXX"), so neither *)
(* of the two is a string of the program.                                  *)
(***************************************************************************)
null == <<"null">>

undefined == <<"undefined">>

(***************************************************************************)
(* String.prototype operations on sequences of characters.  Indices are    *)
(* 1-based; IndexOf gives 0 where JavaScript gives -1.                     *)
(***************************************************************************)
StartsWith(s, p) ==
    /\ Len(p) <= Len(s)
    /\ SubSeq(s, 1, Len(p)) = p

\* s.indexOf(p): the least position at which p occurs in s, or 0
IndexOf(s, p) ==
    LET hits == {i \in 1..(Len(s) - Len(p) + 1) : SubSeq(s, i, i + Len(p) - 1) = p}
    IN  IF hits = {} THEN 0 ELSE CHOOSE i \in hits : \A j \in hits : i <= j

\* s.slice(from), 1-based
SliceFrom(s, from) == SubSeq(s, from, Len(s))

\* s.split(sep) for a non-empty separator: at least one piece, the pieces
\* between the occurrences of sep taken left to right
RECURSIVE Split(_, _)
Split(s, sep) ==
    LET i == IndexOf(s, sep)
    IN  IF i = 0 THEN <<s>>
        ELSE <<SubSeq(s, 1, i - 1)>> \o Split(SliceFrom(s, i + Len(sep)), sep)

\* s.replace(/pat/g, rep): every occurrence of pat, found left to right
\* without overlap, replaced by rep
RECURSIVE ReplaceAll(_, _, _)
ReplaceAll(s, pat, rep) ==
    IF s = <<>> THEN <<>>
    ELSE IF StartsWith(s, pat) THEN rep \o ReplaceAll(SliceFrom(s, Len(pat) + 1), pat, rep)
    ELSE <<Head(s)>> \o ReplaceAll(Tail(s), pat, rep)

\* array.filter(x => x) on an array of strings: the non-empty ones
RECURSIVE FilterNonEmpty(_)
FilterNonEmpty(a) ==
    IF a = <<>> THEN <<>>
    ELSE IF Head(a) = <<>> THEN FilterNonEmpty(Tail(a))
    ELSE <<Head(a)>> \o FilterNonEmpty(Tail(a))

\* array.join(sep)
RECURSIVE Join(_, _)
Join(a, sep) ==
    IF a = <<>> THEN <<>>
    ELSE IF Len(a) = 1 THEN a[1]
    ELSE a[1] \o sep \o Join(Tail(a), sep)

\* obj[key] of an object modelled as a function: undefined for a missing key
Get(obj, key) == IF key \in DOMAIN obj THEN obj[key] ELSE undefined

\* the object {}
EmptyObject == [k \in {} |-> <<>>]

\* obj after obj[key] = value
Put(obj, key, value) ==
    [k \in DOMAIN obj \cup {key} |-> IF k = key THEN value ELSE obj[k]]

(***************************************************************************)
(* Twitch.parseIrcTags                                                     *)
(***************************************************************************)
\* the chain of five global replaces applied to a tag value
UnescapeTagValue(value) ==
    ReplaceAll(
      ReplaceAll(
        ReplaceAll(
          ReplaceAll(
            ReplaceAll(value, <<"\\", "s">>, <<" ">>),
            <<"\\", "n">>, <<"\n">>),
          <<"\\", "r">>, <<"\r">>),
        <<"\\", ":">>, <<";">>),
      <<"\\", "\\">>, <<"\\">>)

RECURSIVE ParsePairs(_, _)
ParsePairs(pairs, tags) ==
    IF pairs = <<>> THEN tags
    ELSE LET pair == Head(pairs)
             eqIdx == IndexOf(pair, <<"=">>)
         IN  IF eqIdx = 0
             THEN ParsePairs(Tail(pairs), Put(tags, pair, <<>>))
             ELSE ParsePairs(Tail(pairs),
                             Put(tags, SubSeq(pair, 1, eqIdx - 1),
                                 UnescapeTagValue(SliceFrom(pair, eqIdx + 1))))

parseIrcTags(tagsStr) ==
    IF tagsStr = <<>> THEN EmptyObject
    ELSE ParsePairs(Split(tagsStr, <<";">>), EmptyObject)

(***************************************************************************)
(* Twitch.parseIrcMessageToJson                                            *)
(***************************************************************************)
\* the frame as constructed at the top of the function
EmptyFrame(message) ==
    [raw |-> message, tags |-> EmptyObject, prefix |-> null, command |-> null,
     params |-> <<>>, trailing |-> null]

\* ParseCommandPart taking the first colon, wherever it stands, as the
\* trailing marker
ParseCommandPart_AnyColon(result, remaining) ==
    LET trailingIdx == IndexOf(remaining, <<":">>)
        commandAndParams ==
            IF trailingIdx # 0 THEN SubSeq(remaining, 1, trailingIdx - 1) ELSE remaining
        parts == FilterNonEmpty(Split(commandAndParams, <<" ">>))
        withTrailing ==
            IF trailingIdx # 0
            THEN [result EXCEPT !.trailing = SliceFrom(remaining, trailingIdx + 1)]
            ELSE result
    IN  IF Len(parts) > 0
        THEN [withTrailing EXCEPT !.command = parts[1], !.params = Tail(parts)]
        ELSE withTrailing

\* the part after the tag block and the prefix block: "command params :trailing"
ParseCommandPart(result, remaining) ==
    LET trailingIdx == IndexOf(remaining, <<" ", ":">>)
        commandAndParams ==
            IF trailingIdx # 0 THEN SubSeq(remaining, 1, trailingIdx - 1) ELSE remaining
        parts == FilterNonEmpty(Split(commandAndParams, <<" ">>))
        withTrailing ==
            IF trailingIdx # 0
            THEN [result EXCEPT !.trailing = SliceFrom(remaining, trailingIdx + 2)]
            ELSE result
    IN  IF Len(parts) > 0
        THEN [withTrailing EXCEPT !.command = parts[1], !.params = Tail(parts)]
        ELSE withTrailing

\* the prefix block and what follows it
ParsePrefixPart(result, remaining) ==
    IF StartsWith(remaining, <<":">>)
    THEN LET spaceIdx == IndexOf(remaining, <<" ">>)
         IN  IF spaceIdx = 0 THEN result
             ELSE ParseCommandPart(
                      [result EXCEPT !.prefix = SubSeq(remaining, 2, spaceIdx - 1)],
                      SliceFrom(remaining, spaceIdx + 1))
    ELSE ParseCommandPart(result, remaining)

\* result after result.meta = result.tags
WithMeta(result) == result @@ [meta |-> result.tags]

\* parseIrcMessageToJson going on with the whole line when the tag block has
\* no terminating space
parseIrcMessageToJson_NoEarlyReturn(message) ==
    LET result == EmptyFrame(message)
    IN  IF StartsWith(message, <<"@">>) /\ IndexOf(message, <<" ">>) # 0
        THEN LET spaceIdx == IndexOf(message, <<" ">>)
             IN  ParsePrefixPart(
                     WithMeta([result EXCEPT !.tags = parseIrcTags(SubSeq(message, 2, spaceIdx - 1))]),
                     SliceFrom(message, spaceIdx + 1))
        ELSE ParseCommandPart(WithMeta(result), message)

parseIrcMessageToJson(message) ==
    LET result == EmptyFrame(message)
    IN  IF StartsWith(message, <<"@">>)
        THEN LET spaceIdx == IndexOf(message, <<" ">>)
             IN  IF spaceIdx = 0 THEN result
                 ELSE ParsePrefixPart(
                          WithMeta([result EXCEPT !.tags = parseIrcTags(SubSeq(message, 2, spaceIdx - 1))]),
                          SliceFrom(message, spaceIdx + 1))
        ELSE ParsePrefixPart(WithMeta(result), message)

(***************************************************************************)
(* Twitch.extractUsername, Twitch.hasBadge                                 *)
(***************************************************************************)
extractUsername(prefix) ==
    IF prefix = null \/ prefix = undefined \/ prefix = <<>> THEN null
    ELSE LET bangIdx == IndexOf(prefix, <<"!">>)
         IN  IF bangIdx = 0 THEN prefix ELSE SubSeq(prefix, 1, bangIdx - 1)

\* hasBadge testing the entries for the type alone, without the slash after it
hasBadge_NoSlash(badges, type) ==
    IF badges = null \/ badges = undefined \/ badges = <<>> THEN FALSE
    ELSE LET entries == Split(badges, <<",">>)
         IN  \E i \in 1..Len(entries) : StartsWith(entries[i], type)

hasBadge(badges, type) ==
    IF badges = null \/ badges = undefined \/ badges = <<>> THEN FALSE
    ELSE LET entries == Split(badges, <<",">>)
         IN  \E i \in 1..Len(entries) : StartsWith(entries[i], type \o <<"/">>)

(***************************************************************************)
(* The collaborators of the adapters that live in the core package.        *)
(***************************************************************************)
\* a name hash that leaves the namespace out
uuidv5_NoNamespace(name, namespace) == <<"uuidv5", "", name>>

\* uuidv5(name, namespace): the namespaced name hash, one value per pair
uuidv5(name, namespace) == <<"uuidv5", namespace, name>>

\* new ChatMessage(id, platform, channel) after the adapter has set its fields
ChatMessage(id, platform, chan) ==
    [id |-> id, platform |-> platform, channel |-> chan, username |-> <<>>,
     message |-> <<>>, is_owner |-> FALSE, is_mod |-> FALSE, is_sub |-> FALSE,
     is_verified |-> FALSE, emojis |-> <<>>]

\* one artifact of Seed.recordWebSocketHandled / Ignored / Unhandled
Artifact(status, data, type) == [status |-> status, data |-> data, type |-> type]

(***************************************************************************)
(* Twitch adapter                                                          *)
(***************************************************************************)
TwitchNamespace == "4a342b79-e302-403a-99be-669b5f27b152"

TwitchPlatform == "Twitch"

V_PRIVMSG == <<"P", "R", "I", "V", "M", "S", "G">>

V_USERNOTICE == <<"U", "S", "E", "R", "N", "O", "T", "I", "C", "E">>

V_CLEARCHAT == <<"C", "L", "E", "A", "R", "C", "H", "A", "T">>

V_CLEARMSG == <<"C", "L", "E", "A", "R", "M", "S", "G">>

V_ROOMSTATE == <<"R", "O", "O", "M", "S", "T", "A", "T", "E">>

V_USERSTATE == <<"U", "S", "E", "R", "S", "T", "A", "T", "E">>

V_GLOBALUSERSTATE == <<"G", "L", "O", "B", "A", "L", "U", "S", "E", "R", "S", "T", "A", "T", "E">>

V_NOTICE == <<"N", "O", "T", "I", "C", "E">>

V_JOIN == <<"J", "O", "I", "N">>

V_PART == <<"P", "A", "R", "T">>

V_CAP == <<"C", "A", "P">>

V_RECONNECT == <<"R", "E", "C", "O", "N", "N", "E", "C", "T">>

V_PING == <<"P", "I", "N", "G">>

V_UNKNOWN == <<"U", "N", "K", "N", "O", "W", "N">>

V_BINARY == <<"B", "I", "N", "A", "R", "Y">>

V_USERNOTICE_SUB == <<"U", "S", "E", "R", "N", "O", "T", "I", "C", "E", "_", "S", "U", "B">>

V_USERNOTICE_RAID == <<"U", "S", "E", "R", "N", "O", "T", "I", "C", "E", "_", "R", "A", "I", "D">>

V_IRC_INIT == <<"I", "R", "C", "_", "I", "N", "I", "T">>

PingLine == <<"P", "I", "N", "G", " ", ":", "t", "m", "i", ".", "t", "w", "i", "t", "c", "h", ".", "t", "v">>

T_id == <<"i", "d">>

T_display_name == <<"d", "i", "s", "p", "l", "a", "y", "-", "n", "a", "m", "e">>

T_badges == <<"b", "a", "d", "g", "e", "s">>

T_mod == <<"m", "o", "d">>

T_subscriber == <<"s", "u", "b", "s", "c", "r", "i", "b", "e", "r">>

T_msg_id == <<"m", "s", "g", "-", "i", "d">>

B_broadcaster == <<"b", "r", "o", "a", "d", "c", "a", "s", "t", "e", "r">>

B_moderator == <<"m", "o", "d", "e", "r", "a", "t", "o", "r">>

B_subscriber == <<"s", "u", "b", "s", "c", "r", "i", "b", "e", "r">>

B_partner == <<"p", "a", "r", "t", "n", "e", "r">>

U_Unknown == <<"U", "n", "k", "n", "o", "w", "n">>

InitVerbs ==
    {<<"C", "A", "P">>,
     <<"0", "0", "1">>,
     <<"0", "0", "2">>,
     <<"0", "0", "3">>,
     <<"0", "0", "4">>,
     <<"3", "5", "3">>,
     <<"3", "6", "6">>,
     <<"3", "7", "2">>,
     <<"3", "7", "5">>,
     <<"3", "7", "6">>}

SubMsgIds ==
    {<<"s", "u", "b">>,
     <<"r", "e", "s", "u", "b">>,
     <<"s", "u", "b", "g", "i", "f", "t">>,
     <<"s", "u", "b", "m", "y", "s", "t", "e", "r", "y", "g", "i", "f", "t">>}

M_raid == <<"r", "a", "i", "d">>

\* JavaScript's !s for a value that is a string, null or undefined
Falsy(s) == s = null \/ s = undefined \/ s = <<>>

T_emotes == <<"e", "m", "o", "t", "e", "s">>

\* \d
Digits == {"0", "1", "2", "3", "4", "5", "6", "7", "8", "9"}

IsDigit(c) == c \in Digits

\* the number of characters at the start of t that are in the class
LeadingCount(t, class) ==
    CHOOSE n \in 0..Len(t) :
        /\ \A i \in 1..n : t[i] \in class
        /\ n = Len(t) \/ t[n + 1] \notin class

DigitValue(c) ==
    CASE c = "0" -> 0 [] c = "1" -> 1 [] c = "2" -> 2 [] c = "3" -> 3 [] c = "4" -> 4
      [] c = "5" -> 5 [] c = "6" -> 6 [] c = "7" -> 7 [] c = "8" -> 8 [] c = "9" -> 9

RECURSIVE IntValue(_)
IntValue(digits) ==
    IF digits = <<>> THEN 0
    ELSE IntValue(SubSeq(digits, 1, Len(digits) - 1)) * 10 + DigitValue(digits[Len(digits)])

\* parseInt(s, 10) of a string: a sequence holding the integer, empty for NaN
parseInt10(s) ==
    LET t == SliceFrom(s, LeadingCount(s, {" "}) + 1)
        signed == t # <<>> /\ Head(t) \in {"+", "-"}
        u == IF signed THEN Tail(t) ELSE t
        n == LeadingCount(u, Digits)
    IN  IF n = 0 THEN <<>>
        ELSE IF signed /\ Head(t) = "-" THEN <<0 - IntValue(SubSeq(u, 1, n))>>
        ELSE <<IntValue(SubSeq(u, 1, n))>>

EmoteUrlHead ==
    <<"h", "t", "t", "p", "s", ":", "/", "/", "s", "t", "a", "t", "i", "c", "-", "c", "d", "n",
      ".", "j", "t", "v", "n", "w", ".", "n", "e", "t", "/", "e", "m", "o", "t", "i", "c", "o",
      "n", "s", "/", "v", "2", "/">>

EmoteUrlTail == <<"/", "d", "e", "f", "a", "u", "l", "t", "/", "d", "a", "r", "k", "/", "1", ".", "0">>

\* the triples pushed for one "start-end" position of an emote group
EmoteAt(pos, emoteId, message) ==
    LET parts == Split(pos, <<"-">>)
        start == parseInt10(parts[1])
        end == parseInt10(IF Len(parts) > 1 THEN parts[2] ELSE undefined)
    IN  IF start # <<>> /\ end # <<>> /\ start[1] <= end[1] /\ end[1] < Len(message)
        THEN LET emoteName ==
                     SubSeq(message, (IF start[1] < 0 THEN 0 ELSE start[1]) + 1, end[1] + 1)
             IN  <<<<emoteName, EmoteUrlHead \o emoteId \o EmoteUrlTail, emoteName>>>>
        ELSE <<>>

\* the inner loop of parseEmotes over the positions of one group
RECURSIVE EmotesAt(_, _, _)
EmotesAt(positions, emoteId, message) ==
    IF positions = <<>> THEN <<>>
    ELSE EmoteAt(Head(positions), emoteId, message)
             \o EmotesAt(Tail(positions), emoteId, message)

\* the body of the outer loop of parseEmotes for one group
EmotesOfGroup(group, message) ==
    LET colonIdx == IndexOf(group, <<":">>)
    IN  IF group = <<>> \/ colonIdx = 0 THEN <<>>
        ELSE EmotesAt(Split(SliceFrom(group, colonIdx + 1), <<",">>),
                      SubSeq(group, 1, colonIdx - 1), message)

RECURSIVE EmotesOfGroups(_, _)
EmotesOfGroups(emoteGroups, message) ==
    IF emoteGroups = <<>> THEN <<>>
    ELSE EmotesOfGroup(Head(emoteGroups), message)
             \o EmotesOfGroups(Tail(emoteGroups), message)

parseEmotes(emotesStr, message) ==
    IF Falsy(emotesStr) \/ Falsy(message) THEN <<>>
    ELSE EmotesOfGroups(Split(emotesStr, <<"/">>), message)

\* prepareChatMessage without its check of the id: a message is built and no
\* warning is emitted whatever the tags hold
prepareChatMessage_NoIdCheck(parsed, chan) ==
    [message |->
       <<[ChatMessage(Get(parsed.tags, T_id), TwitchPlatform, chan) EXCEPT
            !.message = IF Falsy(parsed.trailing) THEN <<>> ELSE parsed.trailing]>>,
     warned |-> <<>>]

\* prepareChatMessage(parsed) with this.channel = chan: the returned message
\* (a sequence holding it, empty for null) and the arguments of this.warn
\* prepareChatMessage that reads the roles from the badges only
prepareChatMessage_BadgesOnly(parsed, chan) ==
    IF Falsy(Get(parsed.tags, T_id))
    THEN [message |-> <<>>, warned |-> <<parsed.raw>>]
    ELSE [message |->
            <<[ChatMessage(Get(parsed.tags, T_id), TwitchPlatform, chan) EXCEPT
                 !.is_owner = hasBadge(Get(parsed.tags, T_badges), B_broadcaster),
                 !.is_mod = hasBadge(Get(parsed.tags, T_badges), B_moderator),
                 !.is_sub = hasBadge(Get(parsed.tags, T_badges), B_subscriber),
                 !.is_verified = hasBadge(Get(parsed.tags, T_badges), B_partner)]>>,
          warned |-> <<>>]

prepareChatMessage(parsed, chan) ==
    LET tags == parsed.tags
        messageText == IF Falsy(parsed.trailing) THEN <<>> ELSE parsed.trailing
        id == Get(tags, T_id)
        username ==
            IF ~Falsy(Get(tags, T_display_name)) THEN Get(tags, T_display_name)
            ELSE IF ~Falsy(extractUsername(parsed.prefix)) THEN extractUsername(parsed.prefix)
            ELSE U_Unknown
        badges == IF Falsy(Get(tags, T_badges)) THEN <<>> ELSE Get(tags, T_badges)
    IN  IF Falsy(id)
        THEN [message |-> <<>>, warned |-> <<parsed.raw>>]
        ELSE [message |->
                <<[ChatMessage(id, TwitchPlatform, chan) EXCEPT
                     !.message = messageText,
                     !.username = username,
                     !.is_owner = hasBadge(badges, B_broadcaster),
                     !.is_mod = (Get(tags, T_mod) = <<"1">>) \/ hasBadge(badges, B_moderator),
                     !.is_sub = (Get(tags, T_subscriber) = <<"1">>) \/ hasBadge(badges, B_subscriber),
                     !.is_verified = hasBadge(badges, B_partner),
                     !.emojis = parseEmotes(Get(tags, T_emotes), messageText)]>>,
              warned |-> <<>>]

\* processIrcLine(ws, line): what the call adds to posted, recorded and warned
processIrcLine(line, chan) ==
    LET parsed == parseIrcMessageToJson(line)
        cmd == parsed.command
        ignored(type) ==
            [posted |-> <<>>, recorded |-> <<Artifact("IGNORED", line, type)>>, warned |-> <<>>]
        unhandled(type) ==
            [posted |-> <<>>, recorded |-> <<Artifact("UNHANDLED", line, type)>>, warned |-> <<>>]
    IN  IF line = PingLine THEN ignored(V_PING)
        ELSE IF cmd = V_PRIVMSG
        THEN LET prepared == prepareChatMessage(parsed, chan)
             IN  IF prepared.message # <<>>
                 THEN [posted |-> prepared.message,
                       recorded |-> <<Artifact("HANDLED", line, V_PRIVMSG)>>,
                       warned |-> prepared.warned]
                 ELSE [posted |-> <<>>,
                       recorded |-> <<Artifact("IGNORED", line, V_PRIVMSG)>>,
                       warned |-> prepared.warned]
        ELSE IF cmd = V_USERNOTICE
        THEN LET msgId == Get(parsed.tags, T_msg_id)
             IN  IF msgId \in SubMsgIds THEN ignored(V_USERNOTICE_SUB)
                 ELSE IF msgId = M_raid THEN ignored(V_USERNOTICE_RAID)
                 ELSE ignored(V_USERNOTICE)
        ELSE IF cmd = V_CLEARCHAT THEN ignored(V_CLEARCHAT)
        ELSE IF cmd = V_CLEARMSG THEN ignored(V_CLEARMSG)
        ELSE IF cmd = V_ROOMSTATE THEN ignored(V_ROOMSTATE)
        ELSE IF cmd = V_USERSTATE \/ cmd = V_GLOBALUSERSTATE THEN ignored(cmd)
        ELSE IF cmd = V_NOTICE THEN ignored(V_NOTICE)
        ELSE IF cmd = V_JOIN \/ cmd = V_PART THEN ignored(cmd)
        ELSE IF cmd \in InitVerbs THEN ignored(V_IRC_INIT)
        ELSE IF cmd = V_RECONNECT THEN ignored(V_RECONNECT)
        ELSE IF cmd # null /\ cmd # <<>> THEN unhandled(cmd)
        ELSE unhandled(V_UNKNOWN)

\* the loop of onWebSocketMessage over the lines of one payload
RECURSIVE ProcessLines(_, _)
ProcessLines(lines, chan) ==
    IF lines = <<>> THEN [posted |-> <<>>, recorded |-> <<>>, warned |-> <<>>]
    ELSE CHOOSE all \in
             {[posted |-> first.posted \o rest.posted,
               recorded |-> first.recorded \o rest.recorded,
               warned |-> first.warned \o rest.warned] :
                  first \in {processIrcLine(Head(lines), chan)},
                  rest \in {ProcessLines(Tail(lines), chan)}} : TRUE

\* event.data of a socket message that is not a string
BinaryData == <<"binary">>

CRLF == <<"\r", "\n">>

\* onWebSocketMessage that hands every piece between two CRLF to processIrcLine,
\* the empty ones included
WebSocketMessageEffect_NoFilter(data, chan) ==
    IF data = BinaryData
    THEN [posted |-> <<>>, recorded |-> <<Artifact("IGNORED", data, V_BINARY)>>,
          warned |-> <<>>]
    ELSE ProcessLines(Split(data, CRLF), chan)

\* what onWebSocketMessage(ws, event) adds to posted, recorded and warned
WebSocketMessageEffect(data, chan) ==
    IF data = BinaryData
    THEN [posted |-> <<>>, recorded |-> <<Artifact("IGNORED", data, V_BINARY)>>,
          warned |-> <<>>]
    ELSE ProcessLines(FilterNonEmpty(Split(data, CRLF)), chan)

(***************************************************************************)
(* The Twitch adapter driven by inbound socket payloads.                   *)
(***************************************************************************)
\* @id=a1;display-name=Tu;mod=1 :tu!tu@h PRIVMSG #sc :Hi
LinePrivMsg ==
    <<"@", "i", "d", "=", "a", "1", ";", "d", "i", "s", "p", "l", "a", "y", "-", "n", "a", "m", "e", "=", "T", "u", ";", "m", "o", "d", "=", "1", " ", ":", "t", "u", "!", "t", "u", "@", "h", " ", "P", "R", "I", "V", "M", "S", "G", " ", "#", "s", "c", " ", ":", "H", "i">>

\* @display-name=Tu :tu!tu@h PRIVMSG #sc :Hi
LinePrivMsgNoId ==
    <<"@", "d", "i", "s", "p", "l", "a", "y", "-", "n", "a", "m", "e", "=", "T", "u", " ", ":", "t", "u", "!", "t", "u", "@", "h", " ", "P", "R", "I", "V", "M", "S", "G", " ", "#", "s", "c", " ", ":", "H", "i">>

\* @id=a2 WHISPER tu :psst
LineWhisper ==
    <<"@", "i", "d", "=", "a", "2", " ", "W", "H", "I", "S", "P", "E", "R", " ", "t", "u", " ", ":", "p", "s", "s", "t">>

SampleLines == {LinePrivMsg, LinePrivMsgNoId, LineWhisper, PingLine, <<>>}

\* the most lines batched in one payload
MaxLines == 2

\* the most artifacts recorded in one run
MaxRecorded == 3

RECURSIVE LineSeqs(_)
LineSeqs(n) ==
    IF n = 0 THEN {<<>>}
    ELSE LineSeqs(n - 1) \cup
         {ls \o <<l>> : ls \in {x \in LineSeqs(n - 1) : Len(x) = n - 1}, l \in SampleLines}

\* the payloads: up to MaxLines lines joined by CRLF, and a binary frame
Payloads == {Join(ls, CRLF) : ls \in LineSeqs(MaxLines)} \cup {BinaryData}

\* a page of which the model reads nothing
NoDocument == [head |-> <<>>, items |-> <<>>]

StreamerChannel == <<"s", "c">>

Init ==
    /\ channel = StreamerChannel
    /\ posted = <<>>
    /\ recorded = <<>>
    /\ warned = <<>>
    /\ calls = <<>>
    /\ input = <<>>
    /\ output = <<>>
    /\ cssInjected = FALSE
    /\ document = NoDocument
    /\ pending = <<>>

\* the adapter after a handler whose calls of postChatMessage, record* and
\* warn are those of effect
Apply(effect) ==
    /\ Len(recorded) + Len(effect.recorded) <= MaxRecorded
    /\ posted' = posted \o effect.posted
    /\ recorded' = recorded \o effect.recorded
    /\ warned' = warned \o effect.warned
    /\ UNCHANGED <<channel, calls, input, output, cssInjected, document, pending>>

\* Twitch.onWebSocketMessage(ws, event) with event.data = data
OnWebSocketMessage(data) == Apply(WebSocketMessageEffect(data, channel))

Next == \E data \in Payloads : OnWebSocketMessage(data)

Spec == Init /\ [][Next]_vars

(***************************************************************************)
(* A function under check: the argument is drawn by the initial state and  *)
(* the one step is the call.                                               *)
(***************************************************************************)
Returned == output # <<>>

Result == output[1]

InitCall(args) ==
    /\ channel = StreamerChannel
    /\ posted = <<>>
    /\ recorded = <<>>
    /\ warned = <<>>
    /\ calls = <<>>
    /\ input \in args
    /\ output = <<>>
    /\ cssInjected = FALSE
    /\ document = NoDocument
    /\ pending = <<>>

Return(value) ==
    /\ output = <<>>
    /\ output' = <<value>>
    /\ UNCHANGED <<channel, posted, recorded, warned, calls, input, cssInjected, document, pending>>

(***************************************************************************)
(* processIrcLine on single lines                                          *)
(***************************************************************************)
\* the tag blocks, each with its terminating space; none
LineTagBlocks ==
    {<<>>,
     <<"@", "i", "d", "=", "a", "1", " ">>,
     <<"@", "i", "d", "=", " ">>,
     <<"@", "d", "i", "s", "p", "l", "a", "y", "-", "n", "a", "m", "e", "=", "T", "u", " ">>,
     <<"@", "i", "d", "=", "a", "1", ";", "m", "o", "d", "=", "1", ";", "b", "a", "d", "g", "e", "s", "=", "m", "o", "d", "e", "r", "a", "t", "o", "r", "/", "1", " ">>,
     <<"@", "i", "d", "=", "b", "2", ";", "s", "u", "b", "s", "c", "r", "i", "b", "e", "r", "=", "1", ";", "b", "a", "d", "g", "e", "s", "=", "b", "r", "o", "a", "d", "c", "a", "s", "t", "e", "r", "/", "1", ",", "p", "a", "r", "t", "n", "e", "r", "/", "1", " ">>,
     <<"@", "m", "s", "g", "-", "i", "d", "=", "s", "u", "b", " ">>,
     <<"@", "m", "s", "g", "-", "i", "d", "=", "r", "a", "i", "d", ";", "i", "d", "=", "c", "3", " ">>}

\* the prefix blocks; none
LinePrefixes ==
    {<<>>,
     <<":", "t", "u", "!", "t", "u", "@", "h", " ">>}

\* the verbs
LineVerbs ==
    {<<"P", "R", "I", "V", "M", "S", "G">>,
     <<"J", "O", "I", "N">>,
     <<"P", "I", "N", "G">>,
     <<"C", "A", "P">>,
     <<"0", "0", "1">>,
     <<"U", "S", "E", "R", "N", "O", "T", "I", "C", "E">>,
     <<"C", "L", "E", "A", "R", "C", "H", "A", "T">>,
     <<"C", "L", "E", "A", "R", "M", "S", "G">>,
     <<"R", "O", "O", "M", "S", "T", "A", "T", "E">>,
     <<"U", "S", "E", "R", "S", "T", "A", "T", "E">>,
     <<"N", "O", "T", "I", "C", "E">>,
     <<"R", "E", "C", "O", "N", "N", "E", "C", "T">>,
     <<"W", "H", "I", "S", "P", "E", "R">>}

\* the params and the trailing text
LineTails ==
    {<<>>,
     <<" ", "#", "s", "c">>,
     <<" ", "#", "s", "c", " ", ":", "H", "i">>}

Lines ==
    {t \o p \o v \o r : t \in LineTagBlocks, p \in LinePrefixes, v \in LineVerbs, r \in LineTails}
        \cup {PingLine}

LineInit == InitCall(Lines)

LineNext == Return(processIrcLine(input, channel))

LineSpec == LineInit /\ [][LineNext]_vars

\* the frame of the line under check
InputFrame == parseIrcMessageToJson(input)

\* the line under check is a chat post (the keep-alive line is handled before
\* the line is tokenized)
IsChatPost == input # PingLine /\ InputFrame.command = V_PRIVMSG

\* C1: for every chat-post frame whose tags carry a non-empty id, the message
\* that prepareChatMessage returns (and processIrcLine posts) has as its id
\* the namespaced hash uuidv5(native id, adapter namespace), not the native id
C1_IdIsNamespacedHash ==
    (Returned /\ IsChatPost /\ ~Falsy(Get(InputFrame.tags, T_id)))
        => /\ Len(Result.posted) = 1
           /\ Result.posted[1].id = uuidv5(Get(InputFrame.tags, T_id), TwitchNamespace)

\* C5: a chat-post frame whose tags have no id (absent or empty) makes
\* prepareChatMessage return null with exactly one warning; processIrcLine
\* posts nothing for the line and records it once, as ignored
C5_NoIdNoMessage ==
    (Returned /\ IsChatPost /\ Falsy(Get(InputFrame.tags, T_id)))
        => /\ prepareChatMessage(InputFrame, channel).message = <<>>
           /\ Len(prepareChatMessage(InputFrame, channel).warned) = 1
           /\ Result.posted = <<>>
           /\ Len(Result.warned) = 1
           /\ Result.recorded = <<Artifact("IGNORED", input, V_PRIVMSG)>>

\* a chat post with an id tag that is present and empty has been processed
C5_Witness ==
    /\ Returned
    /\ IsChatPost
    /\ T_id \in DOMAIN InputFrame.tags
    /\ InputFrame.tags[T_id] = <<>>
    /\ Result.posted = <<>>

(***************************************************************************)
(* parseIrcTags on single tag blocks "k=<value>"                           *)
(***************************************************************************)
\* the most characters of a tag value
MaxTagValueLen == 3

TagValueChars == {"\\", "s", "n", "r", ":"}

RECURSIVE StringsOver(_, _)
\* the strings of at most n characters of the set chars
StringsOver(chars, n) ==
    IF n = 0 THEN {<<>>}
    ELSE StringsOver(chars, n - 1) \cup
         {s \o <<c>> : s \in {x \in StringsOver(chars, n - 1) : Len(x) = n - 1}, c \in chars}

TagKey == <<"k">>

TagBlocks == {TagKey \o <<"=">> \o v : v \in StringsOver(TagValueChars, MaxTagValueLen)}

TagInit == InitCall(TagBlocks)

TagNext == Return(parseIrcTags(input))

TagSpec == TagInit /\ [][TagNext]_vars

\* the unescape of the message-tags grammar: one pass from left to right in
\* which each escape is consumed whole, so that a backslash it produces is
\* never read again
RECURSIVE OnePassUnescape(_)
OnePassUnescape(v) ==
    IF v = <<>> THEN <<>>
    ELSE IF Len(v) >= 2 /\ v[1] = "\\" /\ v[2] \in {"s", "n", "r", ":", "\\"}
    THEN <<CASE v[2] = "s" -> " "
             [] v[2] = "n" -> "\n"
             [] v[2] = "r" -> "\r"
             [] v[2] = ":" -> ";"
             [] OTHER -> "\\">> \o OnePassUnescape(SliceFrom(v, 3))
    ELSE <<Head(v)>> \o OnePassUnescape(Tail(v))

\* C2: parseIrcTags unescapes each tag value in one left-to-right pass applied
\* once; a backslash produced from backslash-backslash is never combined with
\* the character after it
C2_OnePassUnescape ==
    Returned => Get(Result, TagKey) = OnePassUnescape(SliceFrom(input, Len(TagKey) + 2))

(***************************************************************************)
(* hasBadge on badge lists and tokens                                      *)
(***************************************************************************)
\* the most characters of a generated badge list
MaxBadgeLen == 4

\* the most characters of a generated token
MaxTokenLen == 2

BadgeChars == {"m", "s", "/", ","}

TokenChars == {"m", "s", "/"}

\* the lists and tokens of the adapter's tests
TestBadgeLists ==
    {<<"b", "r", "o", "a", "d", "c", "a", "s", "t", "e", "r", "/", "1", ",", "s", "u", "b", "s", "c", "r", "i", "b", "e", "r", "/", "9", "9">>,
     <<"m", "o", "d", "e", "r", "a", "t", "o", "r", "/", "1", ",", "s", "u", "b", "s", "c", "r", "i", "b", "e", "r", "/", "2", "4">>,
     <<"s", "u", "b", "s", "c", "r", "i", "b", "e", "r", "/", "1", "2">>}

BadgeLists == StringsOver(BadgeChars, MaxBadgeLen) \cup TestBadgeLists \cup {null}

BadgeTokens == StringsOver(TokenChars, MaxTokenLen) \cup {B_broadcaster, B_moderator}

BadgeInit == InitCall([badges : BadgeLists, type : BadgeTokens])

BadgeNext == Return(hasBadge(input.badges, input.type))

BadgeSpec == BadgeInit /\ [][BadgeNext]_vars

\* positions a..b hold one comma-separated entry of the list
IsEntry(badges, a, b) ==
    /\ \A i \in a..b : badges[i] # ","
    /\ a = 1 \/ badges[a - 1] = ","
    /\ b = Len(badges) \/ badges[b + 1] = ","

\* some entry of the list has a slash with exactly the token as the text
\* before it
HasEntryOfToken(badges, token) ==
    /\ badges # null
    /\ \E a \in 1..Len(badges) : \E b \in a..Len(badges) :
          /\ IsEntry(badges, a, b)
          /\ \E i \in a..b :
                /\ badges[i] = "/"
                /\ SubSeq(badges, a, i - 1) = token

\* C6: hasBadge(badgeList, token) is true exactly when some comma-separated
\* entry of the list has exactly the token as the text before its slash; for
\* a null or empty list it is false for every token
C6_HasBadgeExactToken ==
    Returned =>
        /\ Result = HasEntryOfToken(input.badges, input.type)
        /\ (input.badges = null \/ input.badges = <<>>) => Result = FALSE

\* a badge found in an entry that is not the first one of the list
C6_Witness ==
    /\ Returned
    /\ Result = TRUE
    /\ input.type # <<>>
    /\ \A i \in 1..Len(input.type) : input.type[i] # "/"
    /\ ~StartsWith(input.badges, input.type)
    /\ \E i \in 1..Len(input.badges) : input.badges[i] = ","

(***************************************************************************)
(* parseIrcMessageToJson on serialized frames                              *)
(***************************************************************************)
\* the most params of a frame
MaxParams == 2

\* commands without spaces
FrameCommands ==
    {<<"J">>,
     <<"P", "R", "I", "V", "M", "S", "G">>,
     <<"0", "0", "1">>,
     <<"J", ":">>,
     <<":", "J">>,
     <<"@", "J">>}

\* params that are non-empty, have no space and do not start with a colon
FrameParamWords ==
    {<<"#", "c">>,
     <<"a", ":", "b">>,
     <<"@", "x">>,
     <<"*">>}

RECURSIVE SeqsOver(_, _)
\* the sequences of at most n elements of the set S
SeqsOver(S, n) ==
    IF n = 0 THEN {<<>>}
    ELSE SeqsOver(S, n - 1) \cup
         {s \o <<x>> : s \in {y \in SeqsOver(S, n - 1) : Len(y) = n - 1}, x \in S}

\* trailing texts; null is an absent trailing
FrameTrailings ==
    {null, <<>>,
     <<"H", "i">>,
     <<"a", " ", ":", "b">>,
     <<":", "x">>,
     <<" ", "y">>}

\* contents of the tag block; null is an absent block
FrameTagBlocks ==
    {null, <<"i", "d", "=", "a", "1">>, <<"a", "=", "b", ";", "c">>}

\* contents of the prefix block; null is an absent block
FramePrefixes ==
    {null, <<"t", "u", "!", "t", "u", "@", "h">>}

Frames ==
    [tags : FrameTagBlocks, prefix : FramePrefixes, command : FrameCommands,
     params : SeqsOver(FrameParamWords, MaxParams), trailing : FrameTrailings]

\* the line of a frame: "@tags :prefix command params... :trailing"
Serialize(frame) ==
    (IF frame.tags # null THEN <<"@">> \o frame.tags \o <<" ">> ELSE <<>>)
    \o (IF frame.prefix # null THEN <<":">> \o frame.prefix \o <<" ">> ELSE <<>>)
    \o Join(<<frame.command>> \o frame.params, <<" ">>)
    \o (IF frame.trailing # null THEN <<" ", ":">> \o frame.trailing ELSE <<>>)

FrameInit == InitCall(Frames)

FrameNext == Return(parseIrcMessageToJson(Serialize(input)))

FrameSpec == FrameInit /\ [][FrameNext]_vars

\* the tokenized line has the command, params and trailing of the frame
RoundTrips ==
    /\ Result.command = input.command
    /\ Result.params = input.params
    /\ Result.trailing = input.trailing

\* C7 (as stated): for every well-formed frame (a command without spaces,
\* params that are non-empty, have no space and do not start with a colon, an
\* optional trailing), serializing it, optionally after a tag block and a
\* prefix block, and tokenizing the line reproduces command, params, trailing
C7_RoundTrip == Returned => RoundTrips

\* C7 (amended): the same, for frames whose command does not start with "@"
\* or ":"
C7_RoundTripAmended ==
    (Returned /\ Head(input.command) \notin {"@", ":"}) => RoundTrips

\* a frame with both blocks, two params and a trailing holding " :" is
\* reproduced
C7_Witness ==
    /\ Returned
    /\ Head(input.command) \notin {"@", ":"}
    /\ input.tags # null /\ input.prefix # null
    /\ Len(input.params) = 2
    /\ input.trailing = <<"a", " ", ":", "b">>
    /\ RoundTrips

(***************************************************************************)
(* parseIrcMessageToJson on arbitrary lines                                *)
(***************************************************************************)
\* the most characters of a generated line
MaxRawLen == 4

RawChars == {"@", ":", " ", "a", "="}

RawInit == InitCall(StringsOver(RawChars, MaxRawLen))

RawNext == Return(parseIrcMessageToJson(input))

RawSpec == RawInit /\ [][RawNext]_vars

IsString(x) == x \in Seq(RawChars)

IsNullOrString(x) == x = null \/ IsString(x)

\* the line starts with a tag block that no space ends
UnterminatedTagBlock(line) ==
    StartsWith(line, <<"@">>) /\ \A i \in 1..Len(line) : line[i] # " "

\* the line without its (terminated) tag block
AfterTagBlock(line) ==
    IF StartsWith(line, <<"@">>) /\ \E i \in 1..Len(line) : line[i] = " "
    THEN SubSeq(line, 1 + CHOOSE i \in 1..Len(line) :
                        line[i] = " " /\ \A j \in 1..(i - 1) : line[j] # " ",
                Len(line))
    ELSE line

\* the text between the "@" and the space that ends the tag block
TagBlockOf(line) ==
    IF StartsWith(line, <<"@">>) /\ \E i \in 1..Len(line) : line[i] = " "
    THEN SubSeq(line, 2, Len(line) - Len(AfterTagBlock(line)) - 1)
    ELSE <<>>

\* after the tag block, if any, comes a prefix block that no space ends
UnterminatedPrefixBlock(line) ==
    /\ ~UnterminatedTagBlock(line)
    /\ StartsWith(AfterTagBlock(line), <<":">>)
    /\ \A i \in 1..Len(AfterTagBlock(line)) : AfterTagBlock(line)[i] # " "

\* C8: for every input string parseIrcMessageToJson returns a frame whose raw
\* is the input, whose tags is a mapping, whose params is a list and whose
\* prefix, command and trailing are each null or a string; a tag block or a
\* prefix block with no terminating space yields the partial frame built so
\* far, with command null
C8_TotalTokenizer ==
    Returned =>
        /\ Result.raw = input
        /\ \A k \in DOMAIN Result.tags : IsString(k) /\ IsString(Result.tags[k])
        /\ \A i \in 1..Len(Result.params) : IsString(Result.params[i])
        /\ IsNullOrString(Result.prefix)
        /\ IsNullOrString(Result.command)
        /\ IsNullOrString(Result.trailing)
        /\ UnterminatedTagBlock(input) => Result = EmptyFrame(input)
        /\ UnterminatedPrefixBlock(input) =>
              /\ Result.command = null
              /\ Result = WithMeta([EmptyFrame(input) EXCEPT
                                        !.tags = parseIrcTags(TagBlockOf(input))])

\* a line whose tag block is ended and whose prefix block is not
C8_Witness ==
    /\ Returned
    /\ UnterminatedPrefixBlock(input)
    /\ DOMAIN Result.tags # {}
    /\ Result.command = null

(***************************************************************************)
(* YouTube: paymentValue                                                   *)
(***************************************************************************)
\* the symbol table, in the order of its keys; a character outside ASCII is
\* written by its code point
currencyData ==
    <<<<<<"u", "s", "$">>, <<"U", "S", "D">>>>,
      <<<<"a", "$">>, <<"A", "U", "D">>>>,
      <<<<"c", "$">>, <<"C", "A", "D">>>>,
      <<<<"c", "l", "p", "$">>, <<"C", "L", "P">>>>,
      <<<<"c", "o", "p", "$">>, <<"C", "O", "P">>>>,
      <<<<"h", "k", "$">>, <<"H", "K", "D">>>>,
      <<<<"m", "x", "$">>, <<"M", "X", "N">>>>,
      <<<<"n", "t", "$">>, <<"T", "W", "D">>>>,
      <<<<"n", "z", "$">>, <<"N", "Z", "D">>>>,
      <<<<"r", "$">>, <<"B", "R", "L">>>>,
      <<<<"r", "d", "$">>, <<"D", "O", "P">>>>,
      <<<<"s", "$">>, <<"S", "G", "D">>>>,
      <<<<"s", "/">>, <<"P", "E", "N">>>>,
      <<<<"b", "/", ".">>, <<"P", "A", "B">>>>,
      <<<<"b", "s", ".">>, <<"B", "O", "B">>>>,
      <<<<"U+043B", "U+0432">>, <<"B", "G", "N">>>>,
      <<<<"U+0434", "U+0435", "U+043D">>, <<"M", "K", "D">>>>,
      <<<<"U+0434", "U+0438", "U+043D", ".">>, <<"R", "S", "D">>>>,
      <<<<"U+0631", ".", "U+0633">>, <<"S", "A", "R">>>>,
      <<<<"U+062F", ".", "U+0625">>, <<"A", "E", "D">>>>,
      <<<<"b", "r">>, <<"B", "Y", "N">>>>,
      <<<<"k", "n">>, <<"H", "R", "K">>>>,
      <<<<"k", "U+010D">>, <<"C", "Z", "K">>>>,
      <<<<"k", "r">>, <<"S", "E", "K">>>>,
      <<<<"f", "t">>, <<"H", "U", "F">>>>,
      <<<<"z", "U+0142">>, <<"P", "L", "N">>>>,
      <<<<"c", "f", "a">>, <<"X", "O", "F">>>>,
      <<<<"u", "s", "h">>, <<"U", "G", "X">>>>,
      <<<<"l", "e", "i">>, <<"R", "O", "N">>>>,
      <<<<"c", "h", "f">>, <<"C", "H", "F">>>>,
      <<<<"U+20AC">>, <<"E", "U", "R">>>>,
      <<<<"U+00A3">>, <<"G", "B", "P">>>>,
      <<<<"U+00A5">>, <<"J", "P", "Y">>>>,
      <<<<"U+20A9">>, <<"K", "R", "W">>>>,
      <<<<"U+20B9">>, <<"I", "N", "R">>>>,
      <<<<"U+20AA">>, <<"I", "L", "S">>>>,
      <<<<"U+20B1">>, <<"P", "H", "P">>>>,
      <<<<"U+20BD">>, <<"R", "U", "B">>>>,
      <<<<"U+20BA">>, <<"T", "R", "Y">>>>,
      <<<<"U+20A6">>, <<"N", "G", "N">>>>,
      <<<<"U+20B2">>, <<"P", "Y", "G">>>>,
      <<<<"U+20A1">>, <<"C", "R", "C">>>>,
      <<<<"q">>, <<"G", "T", "Q">>>>,
      <<<<"l">>, <<"H", "N", "L">>>>,
      <<<<"$">>, <<"U", "S", "D">>>>,
      <<<<"r">>, <<"Z", "A", "R">>>>,
      <<<<"a", "e", "d">>, <<"A", "E", "D">>>>,
      <<<<"a", "r", "s">>, <<"A", "R", "S">>>>,
      <<<<"a", "u", "d">>, <<"A", "U", "D">>>>,
      <<<<"b", "g", "n">>, <<"B", "G", "N">>>>,
      <<<<"b", "o", "b">>, <<"B", "O", "B">>>>,
      <<<<"b", "r", "l">>, <<"B", "R", "L">>>>,
      <<<<"b", "y", "n">>, <<"B", "Y", "N">>>>,
      <<<<"c", "a", "d">>, <<"C", "A", "D">>>>,
      <<<<"c", "l", "p">>, <<"C", "L", "P">>>>,
      <<<<"c", "o", "p">>, <<"C", "O", "P">>>>,
      <<<<"c", "r", "c">>, <<"C", "R", "C">>>>,
      <<<<"c", "z", "k">>, <<"C", "Z", "K">>>>,
      <<<<"d", "k", "k">>, <<"D", "K", "K">>>>,
      <<<<"d", "o", "p">>, <<"D", "O", "P">>>>,
      <<<<"e", "u", "r">>, <<"E", "U", "R">>>>,
      <<<<"g", "b", "p">>, <<"G", "B", "P">>>>,
      <<<<"g", "t", "q">>, <<"G", "T", "Q">>>>,
      <<<<"h", "k", "d">>, <<"H", "K", "D">>>>,
      <<<<"h", "n", "l">>, <<"H", "N", "L">>>>,
      <<<<"h", "r", "k">>, <<"H", "R", "K">>>>,
      <<<<"h", "u", "f">>, <<"H", "U", "F">>>>,
      <<<<"i", "l", "s">>, <<"I", "L", "S">>>>,
      <<<<"i", "n", "r">>, <<"I", "N", "R">>>>,
      <<<<"i", "s", "k">>, <<"I", "S", "K">>>>,
      <<<<"j", "p", "y">>, <<"J", "P", "Y">>>>,
      <<<<"k", "r", "w">>, <<"K", "R", "W">>>>,
      <<<<"m", "k", "d">>, <<"M", "K", "D">>>>,
      <<<<"m", "x", "n">>, <<"M", "X", "N">>>>,
      <<<<"n", "g", "n">>, <<"N", "G", "N">>>>,
      <<<<"n", "i", "o">>, <<"N", "I", "O">>>>,
      <<<<"n", "o", "k">>, <<"N", "O", "K">>>>,
      <<<<"n", "z", "d">>, <<"N", "Z", "D">>>>,
      <<<<"p", "a", "b">>, <<"P", "A", "B">>>>,
      <<<<"p", "e", "n">>, <<"P", "E", "N">>>>,
      <<<<"p", "h", "p">>, <<"P", "H", "P">>>>,
      <<<<"p", "l", "n">>, <<"P", "L", "N">>>>,
      <<<<"p", "y", "g">>, <<"P", "Y", "G">>>>,
      <<<<"r", "o", "n">>, <<"R", "O", "N">>>>,
      <<<<"r", "s", "d">>, <<"R", "S", "D">>>>,
      <<<<"r", "u", "b">>, <<"R", "U", "B">>>>,
      <<<<"s", "a", "r">>, <<"S", "A", "R">>>>,
      <<<<"s", "e", "k">>, <<"S", "E", "K">>>>,
      <<<<"s", "g", "d">>, <<"S", "G", "D">>>>,
      <<<<"t", "w", "d">>, <<"T", "W", "D">>>>,
      <<<<"t", "r", "y">>, <<"T", "R", "Y">>>>,
      <<<<"u", "g", "x">>, <<"U", "G", "X">>>>,
      <<<<"u", "s", "d">>, <<"U", "S", "D">>>>,
      <<<<"x", "o", "f">>, <<"X", "O", "F">>>>,
      <<<<"z", "a", "r">>, <<"Z", "A", "R">>>>>>

\* Object.keys(currencyData)
CurrencyKeys == [i \in 1..Len(currencyData) |-> currencyData[i][1]]

\* currencyData[symbol]
CurrencyCode(symbol) ==
    IF \E i \in 1..Len(currencyData) : currencyData[i][1] = symbol
    THEN currencyData[CHOOSE i \in 1..Len(currencyData) : currencyData[i][1] = symbol][2]
    ELSE undefined

\* the length of the longest of the keys
LongestLen(keys) ==
    CHOOSE n \in {Len(keys[i]) : i \in 1..Len(keys)} :
        \A i \in 1..Len(keys) : Len(keys[i]) <= n

RECURSIVE SortByLengthDesc(_, _)
\* keys.sort((a, b) => b.length - a.length): longest first, keys of one
\* length in their order in keys
SortByLengthDesc(keys, n) ==
    IF n = 0 THEN <<>>
    ELSE SelectSeq(keys, LAMBDA k : Len(k) = n) \o SortByLengthDesc(keys, n - 1)

\* the alternatives of the pattern, in order; each is escaped, so it stands
\* for its own characters
symbols == SortByLengthDesc(CurrencyKeys, LongestLen(CurrencyKeys))

\* the characters outside ASCII
NonAscii ==
    {"U+00A3", "U+00A5", "U+010C", "U+010D", "U+0141", "U+0142", "U+017F", "U+0412",
     "U+0414", "U+0415", "U+0418", "U+041B", "U+041D", "U+0432", "U+0434", "U+0435",
     "U+0438", "U+043B", "U+043D", "U+0625", "U+062F", "U+0631", "U+0633", "U+1C80",
     "U+1C81", "U+20A1", "U+20A6", "U+20A9", "U+20AA", "U+20AC", "U+20B1", "U+20B2",
     "U+20B9", "U+20BA", "U+20BD", "U+212A"}

\* String.prototype.toUpperCase on one character
ToUpperCase(c) ==
    CASE c = "a" -> "A"
      [] c = "b" -> "B"
      [] c = "c" -> "C"
      [] c = "d" -> "D"
      [] c = "e" -> "E"
      [] c = "f" -> "F"
      [] c = "g" -> "G"
      [] c = "h" -> "H"
      [] c = "i" -> "I"
      [] c = "j" -> "J"
      [] c = "k" -> "K"
      [] c = "l" -> "L"
      [] c = "m" -> "M"
      [] c = "n" -> "N"
      [] c = "o" -> "O"
      [] c = "p" -> "P"
      [] c = "q" -> "Q"
      [] c = "r" -> "R"
      [] c = "s" -> "S"
      [] c = "t" -> "T"
      [] c = "u" -> "U"
      [] c = "w" -> "W"
      [] c = "x" -> "X"
      [] c = "y" -> "Y"
      [] c = "z" -> "Z"
      [] c = "U+010D" -> "U+010C"
      [] c = "U+0142" -> "U+0141"
      [] c = "U+017F" -> "S"
      [] c = "U+0432" -> "U+0412"
      [] c = "U+0434" -> "U+0414"
      [] c = "U+0435" -> "U+0415"
      [] c = "U+0438" -> "U+0418"
      [] c = "U+043B" -> "U+041B"
      [] c = "U+043D" -> "U+041D"
      [] c = "U+1C80" -> "U+0412"
      [] c = "U+1C81" -> "U+0414"
      [] OTHER -> c

\* String.prototype.toLowerCase on one character
ToLowerCase(c) ==
    CASE c = "A" -> "a"
      [] c = "B" -> "b"
      [] c = "C" -> "c"
      [] c = "D" -> "d"
      [] c = "E" -> "e"
      [] c = "F" -> "f"
      [] c = "G" -> "g"
      [] c = "H" -> "h"
      [] c = "I" -> "i"
      [] c = "J" -> "j"
      [] c = "K" -> "k"
      [] c = "L" -> "l"
      [] c = "M" -> "m"
      [] c = "N" -> "n"
      [] c = "O" -> "o"
      [] c = "P" -> "p"
      [] c = "Q" -> "q"
      [] c = "R" -> "r"
      [] c = "S" -> "s"
      [] c = "T" -> "t"
      [] c = "U" -> "u"
      [] c = "W" -> "w"
      [] c = "X" -> "x"
      [] c = "Y" -> "y"
      [] c = "Z" -> "z"
      [] c = "U+010C" -> "U+010D"
      [] c = "U+0141" -> "U+0142"
      [] c = "U+0412" -> "U+0432"
      [] c = "U+0414" -> "U+0434"
      [] c = "U+0415" -> "U+0435"
      [] c = "U+0418" -> "U+0438"
      [] c = "U+041B" -> "U+043B"
      [] c = "U+041D" -> "U+043D"
      [] c = "U+212A" -> "k"
      [] OTHER -> c

\* Canonicalize of a pattern without the u flag: the upper case of the
\* character, unless that turns a character outside ASCII into an ASCII one
Canonicalize(ch) ==
    IF ch \in NonAscii /\ ToUpperCase(ch) \notin NonAscii THEN ch ELSE ToUpperCase(ch)

\* s with every character mapped by ToLowerCase
LowerCase(s) == [i \in 1..Len(s) |-> ToLowerCase(s[i])]

\* t begins with the alternative sym, under the i flag
StartsWithCI(t, sym) ==
    /\ Len(t) >= Len(sym)
    /\ \A i \in 1..Len(sym) : Canonicalize(t[i]) = Canonicalize(sym[i])

\* \s
Spaces == {" ", "\t"}

Drop(t, n) == SubSeq(t, n + 1, Len(t))

\* \s* at the start of t; no symbol and no amount begins with white space, so
\* only the longest run can lead to a match
SkipSpaces(t) == Drop(t, LeadingCount(t, Spaces))

\* \s*$
AllSpaces(t) == LeadingCount(t, Spaces) = Len(t)

\* the length of the match of [\d,]+(?:\.\d{1,2})? at the start of t, 0 when
\* there is none; what follows an amount in the pattern (white space, a
\* symbol, the end) never begins with a digit, a comma or a dot, so only the
\* longest amount can lead to a match
AmountLen(t) ==
    LET n == LeadingCount(t, Digits \cup {","})
    IN  IF n = 0 THEN 0
        ELSE IF Len(t) >= n + 2 /\ t[n + 1] = "." /\ IsDigit(t[n + 2])
        THEN IF Len(t) >= n + 3 /\ IsDigit(t[n + 3]) THEN n + 3 ELSE n + 2
        ELSE n

\* the least number of a non-empty set of numbers
Least(S) == CHOOSE i \in S : \A j \in S : i <= j

\* the rest of t after the alternative i is <white space, amount, white space>
AmountToEnd(t, i) ==
    LET rest == SkipSpaces(Drop(t, Len(symbols[i])))
    IN  AmountLen(rest) > 0 /\ AllSpaces(Drop(rest, AmountLen(rest)))

\* (SYM)\s*(AMT)\s*$ on t: the first alternative, in the order of symbols,
\* with which the whole pattern matches; groups 1 and 2
SymbolThenAmount(t) ==
    LET ok == {i \in 1..Len(symbols) : StartsWithCI(t, symbols[i]) /\ AmountToEnd(t, i)}
    IN  IF ok = {} THEN <<>>
        ELSE LET rest == SkipSpaces(Drop(t, Len(symbols[Least(ok)])))
             IN  <<[symbol |-> SubSeq(t, 1, Len(symbols[Least(ok)])),
                    amount |-> SubSeq(rest, 1, AmountLen(rest))]>>

\* (AMT)\s*(SYM)\s*$ on t; groups 4 and 3
AmountThenSymbol(t) ==
    LET rest == SkipSpaces(Drop(t, AmountLen(t)))
        ok == {i \in 1..Len(symbols) :
                 StartsWithCI(rest, symbols[i]) /\ AllSpaces(Drop(rest, Len(symbols[i])))}
    IN  IF AmountLen(t) = 0 \/ ok = {} THEN <<>>
        ELSE <<[symbol |-> SubSeq(rest, 1, Len(symbols[Least(ok)])),
                amount |-> SubSeq(t, 1, AmountLen(t))]>>

\* paymentText.match(paymentRegex): no element for no match, else the symbol
\* and the amount that were matched
MatchPayment(paymentText) ==
    IF SymbolThenAmount(SkipSpaces(paymentText)) # <<>>
    THEN SymbolThenAmount(SkipSpaces(paymentText))
    ELSE AmountThenSymbol(SkipSpaces(paymentText))

\* numbers, in hundredths; NaN; the null in the place of a number
Number(h) == [t |-> "number", hundredths |-> h]

NaN == [t |-> "NaN"]

NullNumber == [t |-> "null"]

\* parseFloat of digits with at most two decimals, as the pattern leaves them
ParseFloat(s) ==
    LET n == LeadingCount(s, Digits)
        decimals ==
            IF Len(s) >= n + 2 /\ s[n + 1] = "." /\ IsDigit(s[n + 2])
            THEN SubSeq(s, n + 2, n + 1 + LeadingCount(Drop(s, n + 1), Digits))
            ELSE <<>>
    IN  IF n = 0 /\ decimals = <<>> THEN NaN
        ELSE Number(IntValue(SubSeq(s, 1, n)) * 100
                    + (IF Len(decimals) = 1 THEN IntValue(decimals) * 10
                       ELSE IntValue(decimals)))

\* amountString.replace(/,/g, '')
RemoveCommas(s) == SelectSeq(s, LAMBDA c : c # ",")

\* paymentValue with the table read by the symbol as it was matched
paymentValue_NoLowerCase(paymentText) ==
    LET match == MatchPayment(paymentText)
    IN  IF match = <<>> THEN <<null, NullNumber>>
        ELSE <<IF CurrencyCode(match[1].symbol) = undefined THEN null
               ELSE CurrencyCode(match[1].symbol),
               ParseFloat(RemoveCommas(match[1].amount))>>

\* the pair [currencyCode, amount]
paymentValue(paymentText) ==
    LET match == MatchPayment(paymentText)
    IN  IF match = <<>> THEN <<null, NullNumber>>
        ELSE <<IF CurrencyCode(LowerCase(match[1].symbol)) = undefined THEN null
               ELSE CurrencyCode(LowerCase(match[1].symbol)),
               ParseFloat(RemoveCommas(match[1].amount))>>

(***************************************************************************)
(* paymentValue on payment texts                                           *)
(***************************************************************************)
\* the most characters of a generated text
MaxTextLen == 3

TextChars == {"$", "r", "R", "5", ".", ",", " "}

\* the keys of the table and their upper case
TableSymbolTexts ==
    {CurrencyKeys[i] : i \in 1..Len(CurrencyKeys)}
    \cup {[j \in 1..Len(CurrencyKeys[i]) |-> ToUpperCase(CurrencyKeys[i][j])] :
            i \in 1..Len(CurrencyKeys)}

\* symbols written with characters whose upper or lower case is a character
\* of a key
FoldedSymbolTexts ==
    {<<"U+043B", "U+1C80">>, <<"U+1C81", "U+0435", "U+043D">>,
     <<"u", "U+017F", "h">>, <<"U+212A", "r">>, <<"K", "r">>, <<"x">>}

\* amounts: digits with comma thousands separators and at most two decimals
AmountVectors ==
    {[text |-> <<"5", ".", "0", "0">>, hundredths |-> 500],
     [text |-> <<"1", "0", ".", "0", "0">>, hundredths |-> 1000],
     [text |-> <<"2", "5", ".", "0", "0">>, hundredths |-> 2500],
     [text |-> <<"5", "0", ".", "0", "0">>, hundredths |-> 5000],
     [text |-> <<"5">>, hundredths |-> 500],
     [text |-> <<"0", ".", "9", "9">>, hundredths |-> 99],
     [text |-> <<"1", ",", "0", "0", "0">>, hundredths |-> 100000],
     [text |-> <<"1", ",", "2", "3", "4", ".", "5">>, hundredths |-> 123450]}

\* texts that are no amount
MalformedAmounts ==
    {[text |-> <<>>, hundredths |-> 0],
     [text |-> <<"5", ".", "1", "2", "3">>, hundredths |-> 0],
     [text |-> <<".", "5">>, hundredths |-> 0],
     [text |-> <<"5", ".">>, hundredths |-> 0]}

\* white space before, between and after
Spacings ==
    {<<<<>>, <<>>, <<>>>>, <<<<" ">>, <<>>, <<>>>>, <<<<>>, <<" ">>, <<>>>>,
     <<<<" ">>, <<"\t", " ">>, <<" ">>>>}

PaymentInputs ==
    [kind : {"symbol-first", "amount-first"},
     symbol : TableSymbolTexts \cup FoldedSymbolTexts,
     amount : AmountVectors \cup MalformedAmounts,
     spacing : Spacings]
    \cup [kind : {"text"}, text : StringsOver(TextChars, MaxTextLen)]

\* the text of an input
TextOf(in) ==
    CASE in.kind = "text" -> in.text
      [] in.kind = "symbol-first" ->
            in.spacing[1] \o in.symbol \o in.spacing[2] \o in.amount.text \o in.spacing[3]
      [] in.kind = "amount-first" ->
            in.spacing[1] \o in.amount.text \o in.spacing[2] \o in.symbol \o in.spacing[3]

PaymentInit == InitCall(PaymentInputs)

PaymentNext == Return(paymentValue(TextOf(input)))

PaymentSpec == PaymentInit /\ [][PaymentNext]_vars

\* the key k occurs in the text s
OccursIn(k, s) == \E i \in 0..(Len(s) - Len(k)) : SubSeq(s, i + 1, i + Len(k)) = k

\* the longest key of the table that occurs in the symbol part s
LongestKeyIn(s) ==
    CHOOSE k \in {CurrencyKeys[i] : i \in 1..Len(CurrencyKeys)} :
        /\ OccursIn(k, s)
        /\ \A i \in 1..Len(CurrencyKeys) :
              OccursIn(CurrencyKeys[i], s) => Len(CurrencyKeys[i]) <= Len(k)

USD == <<"U", "S", "D">>

\* C9: paymentValue recognizes <symbol><amount> and <amount><symbol>, with
\* optional white space around and between, comma thousands separators and
\* at most two decimals, and returns the code of the longest table symbol
\* that matches the symbol part: "$5.00" gives (USD, 5), "U+20AC10.00" gives
\* (EUR, 10), "US$5.00" gives USD, "R$25.00" gives BRL, "HK$50.00" gives HKD
C9_BothOrderingsLongestSymbol ==
    Returned =>
        /\ (/\ input.kind # "text"
            /\ input.symbol \in TableSymbolTexts
            /\ input.amount \in AmountVectors)
           => Result = <<CurrencyCode(LongestKeyIn(LowerCase(input.symbol))),
                         Number(input.amount.hundredths)>>
        /\ TextOf(input) = <<"$", "5", ".", "0", "0">> => Result = <<USD, Number(500)>>
        /\ TextOf(input) = <<"U+20AC", "1", "0", ".", "0", "0">>
           => Result = <<<<"E", "U", "R">>, Number(1000)>>
        /\ TextOf(input) = <<"U", "S", "$", "5", ".", "0", "0">> => Result[1] = USD
        /\ TextOf(input) = <<"R", "$", "2", "5", ".", "0", "0">>
           => Result[1] = <<"B", "R", "L">>
        /\ TextOf(input) = <<"H", "K", "$", "5", "0", ".", "0", "0">>
           => Result[1] = <<"H", "K", "D">>

\* "R$25.00" has given BRL
C9_Witness ==
    /\ Returned
    /\ TextOf(input) = <<"R", "$", "2", "5", ".", "0", "0">>
    /\ Result = <<<<"B", "R", "L">>, Number(2500)>>

\* the text matches and the symbol it matched is no key of the table
MatchedUnmapped(text) ==
    /\ MatchPayment(text) # <<>>
    /\ CurrencyCode(LowerCase(MatchPayment(text)[1].symbol)) = undefined

\* C10: paymentValue returns the pair (null, null) for every text that
\* matches neither ordering and for every text whose matched symbol has no
\* entry in the symbol table
C10_NullPair ==
    (Returned /\ (MatchPayment(TextOf(input)) = <<>> \/ MatchedUnmapped(TextOf(input))))
        => Result = <<null, NullNumber>>

(***************************************************************************)
(* YouTube: the values of a live chat response                             *)
(***************************************************************************)
JsUndefined == [t |-> "undefined"]

JsNull == [t |-> "null"]

JsString(s) == [t |-> "string", s |-> s]

JsBoolean(b) == [t |-> "boolean", b |-> b]

JsObject(f) == [t |-> "object", f |-> f]

JsArray(e) == [t |-> "array", e |-> e]

\* the object {}
NoFields == [k \in {} |-> JsUndefined]

\* the outcome of an expression that throws a TypeError
TypeError == [t |-> "TypeError"]

IsNullish(v) == v.t \in {"undefined", "null"}

\* ToBoolean
Truthy(v) ==
    CASE v.t = "string" -> v.s # <<>>
      [] v.t = "boolean" -> v.b
      [] v.t = "number" -> v.hundredths # 0
      [] v.t \in {"object", "array"} -> TRUE
      [] OTHER -> FALSE

\* v.name; reading a property of undefined or null throws, and so does
\* reading one of what an expression that threw would have given
Prop(v, name) ==
    IF v.t = "TypeError" \/ IsNullish(v) THEN TypeError
    ELSE IF v.t = "object" /\ name \in DOMAIN v.f THEN v.f[name]
    ELSE IF v.t = "array" /\ name = "length" THEN Number(100 * Len(v.e))
    ELSE IF v.t = "string" /\ name = "length" THEN Number(100 * Len(v.s))
    ELSE JsUndefined

\* v?.name
OptProp(v, name) == IF IsNullish(v) THEN JsUndefined ELSE Prop(v, name)

\* v.at(-1)
ArrayLast(v) ==
    IF v.t = "array" THEN (IF v.e = <<>> THEN JsUndefined ELSE v.e[Len(v.e)])
    ELSE IF v.t = "string" THEN (IF v.s = <<>> THEN JsUndefined ELSE JsString(<<v.s[Len(v.s)]>>))
    ELSE TypeError

\* v?.at(-1)
OptArrayLast(v) == IF IsNullish(v) THEN JsUndefined ELSE ArrayLast(v)

\* a || b
JsOr(a, b) == IF Truthy(a) THEN a ELSE b

RECURSIVE NatText(_)
\* the decimal digits of a natural number
NatText(n) ==
    IF n < 10 THEN <<CHOOSE c \in Digits : DigitValue(c) = n>>
    ELSE NatText(n \div 10) \o <<CHOOSE c \in Digits : DigitValue(c) = n % 10>>

\* the text of a value in a concatenation or a template
ToText(v) ==
    CASE v.t = "string" -> v.s
      [] v.t = "undefined" -> <<"u", "n", "d", "e", "f", "i", "n", "e", "d">>
      [] v.t = "null" -> <<"n", "u", "l", "l">>
      [] v.t = "NaN" -> <<"N", "a", "N">>
      [] v.t = "number" /\ v.hundredths % 100 = 0 -> NatText(v.hundredths \div 100)
      [] OTHER -> <<"[", "o", "b", "j", "e", "c", "t", " ", "O", "b", "j", "e", "c", "t", "]">>

\* parseInt(timestampUsec / 1000)
SentAt(timestampUsec) ==
    CASE timestampUsec.t = "string" /\ \A i \in 1..Len(timestampUsec.s) : IsDigit(timestampUsec.s[i])
            -> Number(100 * (IntValue(timestampUsec.s) \div 1000))
      [] timestampUsec.t = "number" -> Number(100 * ((timestampUsec.hundredths \div 100) \div 1000))
      [] timestampUsec.t = "null" -> Number(0)
      [] OTHER -> NaN

(***************************************************************************)
(* YouTube.prepareChatMessages                                             *)
(***************************************************************************)
YouTubeNamespace == "fd60ac36-d6b5-49dc-aee6-b0d87d130582"

YouTubePlatform == "YouTube"

\* a field of a message that the adapter has not assigned
Unassigned == [t |-> "unassigned"]

\* new ChatMessage(uuidv5(nativeId, this.namespace), this.platform, this.channel)
NewMessage(nativeId, chan) ==
    [avatar |-> Unassigned, sent_at |-> Unassigned, amount |-> Unassigned,
     currency |-> Unassigned, emojis |-> <<>>, is_placeholder |-> FALSE]
    @@ ChatMessage(uuidv5(nativeId, YouTubeNamespace), YouTubePlatform, chan)

\* the value an item's callback settles with
Fulfilled(value, warnings, logs) ==
    [status |-> "fulfilled", value |-> value, warned |-> warnings, logged |-> logs]

Rejected(warnings, logs) == [status |-> "rejected", warned |-> warnings, logged |-> logs]

\* badge.liveChatAuthorBadgeRenderer?.icon?.iconType
BadgeIcon(badge) ==
    OptProp(OptProp(Prop(badge, "liveChatAuthorBadgeRenderer"), "icon"), "iconType")

\* Array.prototype.some over the outcomes of the callback, element by element:
\* the first outcome that is true or that throws ends it
SomeOf(found) ==
    IF \A i \in 1..Len(found) : found[i] = JsBoolean(FALSE) THEN JsBoolean(FALSE)
    ELSE found[Least({i \in 1..Len(found) : found[i] # JsBoolean(FALSE)})]

\* hasBadge(badges, iconType) of prepareChatMessages
YouTube_hasBadge(badges, iconType) ==
    IF IsNullish(badges) THEN JsBoolean(FALSE)
    ELSE IF badges.t # "array" THEN TypeError
    ELSE SomeOf([i \in 1..Len(badges.e) |->
                   IF BadgeIcon(badges.e[i]) = TypeError THEN TypeError
                   ELSE JsBoolean(BadgeIcon(badges.e[i]) = iconType)])

\* badge.liveChatAuthorBadgeRenderer?.customThumbnail
BadgeThumbnail(badge) ==
    OptProp(Prop(badge, "liveChatAuthorBadgeRenderer"), "customThumbnail")

isMember(badges) ==
    IF IsNullish(badges) THEN JsBoolean(FALSE)
    ELSE IF badges.t # "array" THEN TypeError
    ELSE SomeOf([i \in 1..Len(badges.e) |->
                   IF BadgeThumbnail(badges.e[i]) = TypeError THEN TypeError
                   ELSE JsBoolean(BadgeThumbnail(badges.e[i]) # JsUndefined)])

\* the body, the emojis and the log calls before the runs are read
NoRuns == [message |-> <<>>, emojis |-> <<>>, logged |-> 0, threw |-> FALSE]

\* run.emoji.image?.thumbnails?.at(-1)?.url
EmojiUrl(emoji) ==
    OptProp(OptArrayLast(OptProp(Prop(emoji, "image"), "thumbnails")), "url")

\* AppendRun with no space after the placeholder of an emote
AppendRun_NoSpace(run, acc) ==
    IF IsNullish(run) THEN [acc EXCEPT !.threw = TRUE]
    ELSE IF Prop(run, "text") # JsUndefined
    THEN [acc EXCEPT !.message = @ \o ToText(Prop(run, "text"))]
    ELSE IF Prop(run, "emoji") # JsUndefined
    THEN [acc EXCEPT
            !.message = @ \o <<":">> \o ToText(Prop(Prop(run, "emoji"), "emojiId")) \o <<":">>,
            !.emojis = Append(@,
                <<<<":">> \o ToText(Prop(Prop(run, "emoji"), "emojiId")) \o <<":">>,
                  JsOr(EmojiUrl(Prop(run, "emoji")), JsString(<<>>)),
                  ToText(Prop(Prop(run, "emoji"), "emojiId"))>>)]
    ELSE [acc EXCEPT !.logged = @ + 1]

\* one call of the callback of runs.forEach
AppendRun(run, acc) ==
    IF IsNullish(run) THEN [acc EXCEPT !.threw = TRUE]
    ELSE IF Prop(run, "text") # JsUndefined
    THEN [acc EXCEPT !.message = @ \o ToText(Prop(run, "text"))]
    ELSE IF Prop(run, "emoji") # JsUndefined
    THEN IF EmojiUrl(Prop(run, "emoji")) = TypeError THEN [acc EXCEPT !.threw = TRUE]
         ELSE [acc EXCEPT
                 !.message = @ \o <<":">> \o ToText(Prop(Prop(run, "emoji"), "emojiId"))
                               \o <<":", " ">>,
                 !.emojis = Append(@,
                     <<<<":">> \o ToText(Prop(Prop(run, "emoji"), "emojiId")) \o <<":">>,
                       JsOr(EmojiUrl(Prop(run, "emoji")), JsString(<<>>)),
                       ToText(Prop(Prop(run, "emoji"), "emojiId"))>>)]
    ELSE [acc EXCEPT !.logged = @ + 1]

RECURSIVE AppendRuns(_, _)
AppendRuns(runs, acc) ==
    IF runs = <<>> \/ acc.threw THEN acc
    ELSE AppendRuns(Tail(runs), AppendRun(Head(runs), acc))

\* if (renderer.message && renderer.message.runs) renderer.message.runs.forEach(...)
ApplyRuns(renderer) ==
    IF ~Truthy(Prop(renderer, "message")) \/ ~Truthy(Prop(Prop(renderer, "message"), "runs"))
    THEN NoRuns
    ELSE IF Prop(Prop(renderer, "message"), "runs").t # "array"
    THEN [NoRuns EXCEPT !.threw = TRUE]
    ELSE AppendRuns(Prop(Prop(renderer, "message"), "runs").e, NoRuns)

\* paymentValue(renderer.purchaseAmountText.simpleText); the text of a paid
\* item that is no string has no match method
Purchase(renderer) ==
    IF Prop(Prop(renderer, "purchaseAmountText"), "simpleText").t # "string" THEN <<>>
    ELSE <<paymentValue(Prop(Prop(renderer, "purchaseAmountText"), "simpleText").s)>>

\* currency === null || amount === null
PurchaseUnparsed(purchase) == purchase[1][1] = null \/ purchase[1][2] = NullNumber

\* renderer.authorPhoto.thumbnails.at(-1).url
Avatar(renderer) ==
    Prop(ArrayLast(Prop(Prop(renderer, "authorPhoto"), "thumbnails")), "url")

TextR == "liveChatTextMessageRenderer"

PaidR == "liveChatPaidMessageRenderer"

GiftingR == "liveChatMembershipGiftingEventRenderer"

GiftReceivedR == "liveChatGiftMembershipReceivedEventRenderer"

PlaceholderR == "liveChatPlaceholderItemRenderer"

\* TextOrPaidMessage keeping the amount of a purchase text whose currency
\* was not found
TextOrPaidMessage_AmountAlways(renderer, badges, purchase, body, chan) ==
    [NewMessage(Prop(renderer, "id"), chan) EXCEPT
       !.username = Prop(Prop(renderer, "authorName"), "simpleText"),
       !.avatar = Avatar(renderer),
       !.amount = IF purchase # <<>> THEN Number(0) ELSE @,
       !.currency = IF purchase # <<>> /\ ~PurchaseUnparsed(purchase)
                    THEN JsString(purchase[1][1]) ELSE @,
       !.message = body.message,
       !.emojis = body.emojis]

\* the message of a text or paid item whose reads have not thrown
TextOrPaidMessage(renderer, badges, purchase, body, chan) ==
    [NewMessage(Prop(renderer, "id"), chan) EXCEPT
       !.username = Prop(Prop(renderer, "authorName"), "simpleText"),
       !.avatar = Avatar(renderer),
       !.sent_at = SentAt(Prop(renderer, "timestampUsec")),
       !.is_verified = YouTube_hasBadge(badges, JsString(<<"V", "E", "R", "I", "F", "I", "E", "D">>)).b,
       !.is_sub = isMember(badges).b,
       !.is_mod = YouTube_hasBadge(badges, JsString(<<"M", "O", "D", "E", "R", "A", "T", "O", "R">>)).b,
       !.is_owner = YouTube_hasBadge(badges, JsString(<<"O", "W", "N", "E", "R">>)).b,
       !.amount = IF purchase # <<>> /\ ~PurchaseUnparsed(purchase) THEN purchase[1][2] ELSE @,
       !.currency = IF purchase # <<>> /\ ~PurchaseUnparsed(purchase)
                    THEN JsString(purchase[1][1]) ELSE @,
       !.message = body.message,
       !.emojis = body.emojis]

\* the statements after the purchase text was parsed; purchase is empty for
\* a text item
AfterPurchase(renderer, badges, purchase, warnings, body, chan) ==
    IF body.threw THEN Rejected(warnings, body.logged)
    ELSE Fulfilled(TextOrPaidMessage(renderer, badges, purchase, body, chan),
                   warnings, body.logged)

\* the statements after the guard of the required fields
AfterGuard(renderer, isPaid, badges, purchase, chan) ==
    IF \/ Avatar(renderer) = TypeError
       \/ TypeError \in {YouTube_hasBadge(badges, JsString(<<"V", "E", "R", "I", "F", "I", "E", "D">>)), isMember(badges),
                         YouTube_hasBadge(badges, JsString(<<"M", "O", "D", "E", "R", "A", "T", "O", "R">>)),
                         YouTube_hasBadge(badges, JsString(<<"O", "W", "N", "E", "R">>))}
       \/ isPaid /\ purchase = <<>>
    THEN Rejected(0, 0)
    ELSE AfterPurchase(renderer, badges, IF isPaid THEN purchase ELSE <<>>,
                       IF isPaid /\ PurchaseUnparsed(purchase) THEN 1 ELSE 0,
                       ApplyRuns(renderer), chan)

\* the branch of a text or paid renderer
PrepareRenderer(renderer, isPaid, chan) ==
    IF IsNullish(renderer) THEN Rejected(0, 0)
    ELSE IF \/ ~Truthy(Prop(renderer, "id"))
            \/ ~Truthy(Prop(renderer, "authorName"))
            \/ ~Truthy(OptProp(OptProp(Prop(renderer, "authorPhoto"), "thumbnails"), "length"))
    THEN Fulfilled(JsNull, 0, 0)
    ELSE AfterGuard(renderer, isPaid, Prop(renderer, "authorBadges"),
                    IF isPaid THEN Purchase(renderer) ELSE <<>>, chan)

\* the branch of text and paid items
PrepareTextOrPaid(item, chan) ==
    PrepareRenderer(JsOr(Prop(item, TextR), Prop(item, PaidR)),
                    Prop(item, PaidR) # JsUndefined, chan)

\* numGiftedMembers * 5.00
TimesFive(n) ==
    CASE n.t = "number" -> Number(n.hundredths * 5)
      [] n.t = "null" -> Number(0)
      [] OTHER -> NaN

\* the branch of membership gifts
PrepareGifting(giftingEvent, chan) ==
    IF \/ Prop(giftingEvent, "id") = TypeError
       \/ Prop(Prop(giftingEvent, "authorName"), "simpleText") = TypeError
       \/ Avatar(giftingEvent) = TypeError
    THEN Rejected(0, 0)
    ELSE Fulfilled(
             [NewMessage(Prop(giftingEvent, "id"), chan) EXCEPT
                !.username = Prop(Prop(giftingEvent, "authorName"), "simpleText"),
                !.avatar = Avatar(giftingEvent),
                !.sent_at = SentAt(Prop(giftingEvent, "timestampUsec")),
                !.message = ToText(Prop(Prop(giftingEvent, "authorName"), "simpleText"))
                            \o <<" ", "g", "i", "f", "t", "e", "d", " ">>
                            \o ToText(Prop(giftingEvent, "numGiftedMembers"))
                            \o <<" ", "m", "e", "m", "b", "e", "r", "s", "h", "i", "p", "s", "!">>,
                !.currency = JsString(USD),
                !.amount = Number(500)],
             0, 0)

\* the branch of received gifts
PrepareGiftReceived(giftReceivedEvent, chan) ==
    IF \/ Prop(giftReceivedEvent, "id") = TypeError
       \/ Prop(Prop(giftReceivedEvent, "authorName"), "simpleText") = TypeError
       \/ Avatar(giftReceivedEvent) = TypeError
    THEN Rejected(0, 0)
    ELSE Fulfilled(
             [NewMessage(Prop(giftReceivedEvent, "id"), chan) EXCEPT
                !.username = Prop(Prop(giftReceivedEvent, "authorName"), "simpleText"),
                !.avatar = Avatar(giftReceivedEvent),
                !.sent_at = SentAt(Prop(giftReceivedEvent, "timestampUsec")),
                !.message = ToText(Prop(Prop(giftReceivedEvent, "authorName"), "simpleText"))
                            \o <<" ", "r", "e", "c", "e", "i", "v", "e", "d", " ", "a", " ", "g", "i", "f", "t", "e", "d", " ", "m", "e", "m", "b", "e", "r", "s", "h", "i", "p", "!">>,
                !.currency = JsString(USD),
                !.amount = TimesFive(Prop(giftReceivedEvent, "numGiftedMembers"))],
             0, 0)

\* the branch of placeholders; typeof ... !== undefined is always true
PreparePlaceholder(placeholder, chan) ==
    IF placeholder = JsUndefined THEN Fulfilled(JsNull, 0, 0)
    ELSE IF Prop(placeholder, "id") = TypeError THEN Rejected(0, 0)
    ELSE Fulfilled(
             [NewMessage(Prop(placeholder, "id"), chan) EXCEPT
                !.sent_at = SentAt(Prop(placeholder, "timestampUsec")),
                !.is_placeholder = TRUE],
             0, 0)

\* the async callback of actions.map, run to its end for one action
PrepareAction(action, chan) ==
    IF ~Truthy(OptProp(action, "item")) THEN Fulfilled(JsNull, 0, 0)
    ELSE IF \/ Prop(Prop(action, "item"), TextR) # JsUndefined
            \/ Prop(Prop(action, "item"), PaidR) # JsUndefined
    THEN PrepareTextOrPaid(Prop(action, "item"), chan)
    ELSE IF Prop(Prop(action, "item"), GiftingR) # JsUndefined
    THEN PrepareGifting(Prop(Prop(action, "item"), GiftingR), chan)
    ELSE IF Prop(Prop(action, "item"), GiftReceivedR) # JsUndefined
    THEN PrepareGiftReceived(Prop(Prop(action, "item"), GiftReceivedR), chan)
    ELSE PreparePlaceholder(Prop(Prop(action, "item"), PlaceholderR), chan)

RECURSIVE SumOf(_, _)
\* the sum of the field of the outcomes
SumOf(outcomes, field) ==
    IF outcomes = <<>> THEN 0 ELSE Head(outcomes)[field] + SumOf(Tail(outcomes), field)

\* Promise.all over the callbacks, then the filter of the null values
SettleAll(outcomes) ==
    IF \E i \in 1..Len(outcomes) : outcomes[i].status = "rejected"
    THEN [kind |-> "rejected", warned |-> SumOf(outcomes, "warned"),
          logged |-> SumOf(outcomes, "logged")]
    ELSE [kind |-> "resolved",
          messages |-> SelectSeq([i \in 1..Len(outcomes) |-> outcomes[i].value],
                                 LAMBDA message : message # JsNull),
          warned |-> SumOf(outcomes, "warned"),
          logged |-> SumOf(outcomes, "logged")]

\* prepareChatMessages(actions): actions.map of what is no array raises in
\* the call itself; else the promise of the messages
prepareChatMessages(actions, chan) ==
    IF actions.t # "array" THEN [kind |-> "raised"]
    ELSE SettleAll([i \in 1..Len(actions.e) |-> PrepareAction(actions.e[i], chan)])

(***************************************************************************)
(* prepareChatMessages on batches of actions                               *)
(***************************************************************************)
\* the most actions of a batch
MaxActions == 2

AuthorName == JsObject([simpleText |-> JsString(<<"@", "u">>)])

AuthorPhoto ==
    JsObject([thumbnails |-> JsArray(<<JsObject([url |-> JsString(<<"a", ".", "j", "p", "g">>)])>>)])

NoThumbnails == JsObject([thumbnails |-> JsArray(<<>>)])

TextRun == JsObject([text |-> JsString(<<"H", "i", " ">>)])

EmojiRun ==
    JsObject([emoji |-> JsObject([emojiId |-> JsString(<<"U", "C", "_", "h">>),
                                  image |-> JsObject([thumbnails |->
                                      JsArray(<<JsObject([url |-> JsString(<<"e", ".", "p", "n", "g">>)])>>)])])])

OtherRun == JsObject([bold |-> JsBoolean(TRUE)])

\* an emote run without image
BareEmojiRun == JsObject([emoji |-> JsObject([emojiId |-> JsString(<<"x">>)])])

MessageBodies ==
    {NoFields,
     [message |-> JsObject([runs |-> JsArray(<<TextRun>>)])],
     [message |-> JsObject([runs |-> JsArray(<<TextRun, EmojiRun, OtherRun>>)])],
     [message |-> JsObject([runs |-> JsArray(<<EmojiRun, TextRun>>)])],
     [message |-> JsObject([runs |-> JsArray(<<BareEmojiRun, EmojiRun>>)])]}

AuthorBadges ==
    {NoFields,
     [authorBadges |-> JsArray(
        <<JsObject([liveChatAuthorBadgeRenderer |->
                      JsObject([icon |-> JsObject([iconType |-> JsString(<<"M", "O", "D", "E", "R", "A", "T", "O", "R">>)])])]),
          JsObject([liveChatAuthorBadgeRenderer |->
                      JsObject([customThumbnail |-> JsObject(NoFields)])])>>)]}

Timestamp == [timestampUsec |-> JsString(<<"7", "0", "0", "0">>)]

\* text renderers: with and without id, author name and author photo; the
\* whole ones with and without body and badges
TextRenderers ==
    {JsObject(idPart @@ namePart @@ photoPart @@ Timestamp) :
        idPart \in {[id |-> JsString(<<"t">>)], NoFields},
        namePart \in {[authorName |-> AuthorName], NoFields},
        photoPart \in {[authorPhoto |-> AuthorPhoto], [authorPhoto |-> NoThumbnails], NoFields}}
    \cup {JsObject([id |-> JsString(<<"t">>), authorName |-> AuthorName,
                    authorPhoto |-> AuthorPhoto] @@ Timestamp @@ body @@ badges) :
            body \in MessageBodies, badges \in AuthorBadges}

\* paid renderers: with and without id; with a purchase text that parses,
\* with one that does not, with none; one with a body
PaidRenderers ==
    {JsObject(idPart @@ [authorName |-> AuthorName, authorPhoto |-> AuthorPhoto]
              @@ Timestamp @@ purchasePart) :
        idPart \in {[id |-> JsString(<<"p">>)], NoFields},
        purchasePart \in {[purchaseAmountText |-> JsObject([simpleText |-> JsString(<<"$", "5", ".", "0", "0">>)])],
                          [purchaseAmountText |-> JsObject([simpleText |-> JsString(<<"f", "r", "e", "e">>)])],
                          NoFields}}
    \cup {JsObject([id |-> JsString(<<"p">>), authorName |-> AuthorName,
                    authorPhoto |-> AuthorPhoto,
                    purchaseAmountText |-> JsObject([simpleText |-> JsString(<<"$", "5", ".", "0", "0">>)]),
                    message |-> JsObject([runs |-> JsArray(<<EmojiRun, TextRun>>)])]
                   @@ Timestamp)}

GiftingRenderers ==
    {JsObject([id |-> JsString(<<"g">>), numGiftedMembers |-> Number(500)] @@ Timestamp
              @@ namePart @@ photoPart) :
        namePart \in {[authorName |-> AuthorName], NoFields},
        photoPart \in {[authorPhoto |-> AuthorPhoto], NoFields}}

GiftReceivedRenderers ==
    {JsObject([id |-> JsString(<<"r">>), authorPhoto |-> AuthorPhoto,
               numGiftedMembers |-> Number(200)] @@ Timestamp @@ namePart) :
        namePart \in {[authorName |-> AuthorName], NoFields}}

PlaceholderRenderers == {JsObject([id |-> JsString(<<"h">>)] @@ Timestamp)}

\* the action {item: {[key]: renderer}}
ActionOf(key, renderer) == JsObject([item |-> JsObject([k \in {key} |-> renderer])])

Actions ==
    {ActionOf(TextR, r) : r \in TextRenderers}
    \cup {ActionOf(PaidR, r) : r \in PaidRenderers}
    \cup {ActionOf(GiftingR, r) : r \in GiftingRenderers}
    \cup {ActionOf(GiftReceivedR, r) : r \in GiftReceivedRenderers}
    \cup {ActionOf(PlaceholderR, r) : r \in PlaceholderRenderers}
    \cup {ActionOf(TextR, JsNull), ActionOf(GiftingR, JsNull),
          ActionOf("unknownRenderer", JsObject(NoFields)),
          JsObject([item |-> JsNull]), JsObject(NoFields), JsNull, JsUndefined}

ActionBatches == {JsArray(b) : b \in SeqsOver(Actions, MaxActions)} \cup {JsNull, JsUndefined}

PrepareInit == InitCall(ActionBatches)

PrepareNext == Return(prepareChatMessages(input, channel))

PrepareSpec == PrepareInit /\ [][PrepareNext]_vars

RecognizedKeys == {TextR, PaidR, GiftingR, GiftReceivedR, PlaceholderR}

\* the action holds an item with one renderer of a recognized shape
Recognized(action) ==
    /\ action.t = "object" /\ "item" \in DOMAIN action.f
    /\ action.f.item.t = "object"
    /\ \E key \in RecognizedKeys :
          /\ DOMAIN action.f.item.f = {key}
          /\ action.f.item.f[key].t = "object"

KeyOf(action) == CHOOSE key \in RecognizedKeys : key \in DOMAIN action.f.item.f

RendererOf(action) == action.f.item.f[KeyOf(action)]

\* the renderer of the action has every field its shape requires
WellFormed(action) ==
    LET r == RendererOf(action).f
    IN  /\ "id" \in DOMAIN r /\ r.id.t = "string" /\ r.id.s # <<>>
        /\ KeyOf(action) # PlaceholderR =>
              /\ "authorName" \in DOMAIN r
              /\ "authorPhoto" \in DOMAIN r
              /\ r.authorPhoto.f.thumbnails.e # <<>>
        /\ KeyOf(action) = PaidR => "purchaseAmountText" \in DOMAIN r

\* the ids of the messages of the well-formed actions, in input order
ExpectedIds(actions) ==
    LET kept == SelectSeq(actions, LAMBDA a : WellFormed(a))
    IN  [i \in 1..Len(kept) |-> uuidv5(RendererOf(kept[i]).f.id, YouTubeNamespace)]

\* C3: for every array of actions prepareChatMessages skips each item of a
\* recognized shape that lacks a required field (id, author name, author
\* photo, for paid items the purchase amount text) and resolves to the
\* messages of all other well-formed items of the batch, in input order
C3_SkipsMalformedKeepsBatch ==
    (Returned /\ input.t = "array" /\ \A i \in 1..Len(input.e) : Recognized(input.e[i]))
        => /\ Result.kind = "resolved"
           /\ [i \in 1..Len(Result.messages) |-> Result.messages[i].id] = ExpectedIds(input.e)

\* C4: prepareChatMessages never raises and never rejects: for null or
\* undefined input, an empty array and arrays with null items or items whose
\* renderer is null it resolves to a sequence that holds no null entry
C4_NeverRaisesNeverRejects ==
    Returned =>
        /\ Result.kind = "resolved"
        /\ \A i \in 1..Len(Result.messages) : Result.messages[i] # JsNull

(***************************************************************************)
(* The messages of a resolved batch, against the actions they come from    *)
(***************************************************************************)
\* the well-formed actions of the batch, in input order
Kept(actions) == SelectSeq(actions, LAMBDA a : WellFormed(a))

\* the batch resolved, and its messages are those of the well-formed actions
ResolvedRecognized ==
    /\ Returned
    /\ input.t = "array"
    /\ \A i \in 1..Len(input.e) : Recognized(input.e[i])
    /\ Result.kind = "resolved"
    /\ Len(Result.messages) = Len(Kept(input.e))

\* the purchase text of a paid action gives a currency and an amount
PurchaseParses(action) ==
    /\ paymentValue(RendererOf(action).f.purchaseAmountText.f.simpleText.s)[1] # null
    /\ paymentValue(RendererOf(action).f.purchaseAmountText.f.simpleText.s)[2] # NullNumber

\* the number of paid actions among the kept ones whose text does not parse
RECURSIVE UnparsedPurchases(_)
UnparsedPurchases(kept) ==
    IF kept = <<>> THEN 0
    ELSE (IF KeyOf(Head(kept)) = PaidR /\ ~PurchaseParses(Head(kept)) THEN 1 ELSE 0)
         + UnparsedPurchases(Tail(kept))

\* C11: every message returned by prepareChatMessages has an amount assigned
\* iff it has a currency assigned; a paid message gets both when the purchase
\* text parses and neither, with one warning, when it does not; gift and
\* gift-received messages get both; text and placeholder messages get neither
C11_AmountIffCurrency ==
    /\ (Returned /\ Result.kind = "resolved") =>
          \A i \in 1..Len(Result.messages) :
              (Result.messages[i].amount # Unassigned)
                  <=> (Result.messages[i].currency # Unassigned)
    /\ ResolvedRecognized =>
          /\ Result.warned = UnparsedPurchases(Kept(input.e))
          /\ \A i \in 1..Len(Result.messages) :
                (Result.messages[i].amount # Unassigned)
                    <=> \/ KeyOf(Kept(input.e)[i]) \in {GiftingR, GiftReceivedR}
                        \/ KeyOf(Kept(input.e)[i]) = PaidR /\ PurchaseParses(Kept(input.e)[i])

\* a paid message without amount and with its warning, before a gift message
\* that has both
C11_Witness ==
    /\ ResolvedRecognized
    /\ Len(Result.messages) = 2
    /\ KeyOf(Kept(input.e)[1]) = PaidR
    /\ Result.messages[1].amount = Unassigned
    /\ Result.warned = 1
    /\ KeyOf(Kept(input.e)[2]) = GiftingR
    /\ Result.messages[2].amount = Number(500)
    /\ Result.messages[2].currency = JsString(USD)

\* the runs of a renderer of the model, none when it has no body
RunsOf(renderer) ==
    IF "message" \in DOMAIN renderer.f THEN renderer.f.message.f.runs.e ELSE <<>>

IsTextRun(run) == "text" \in DOMAIN run.f
IsEmoteRun(run) == ~IsTextRun(run) /\ "emoji" \in DOMAIN run.f

\* ':<emojiId>:'
Placeholder(run) == <<":">> \o run.f.emoji.f.emojiId.s \o <<":">>

\* what one run contributes to the body
Segment(run) ==
    IF IsTextRun(run) THEN run.f.text.s
    ELSE IF IsEmoteRun(run) THEN Placeholder(run) \o <<" ">>
    ELSE <<>>

RECURSIVE ExpectedBody(_)
ExpectedBody(runs) ==
    IF runs = <<>> THEN <<>> ELSE Segment(Head(runs)) \o ExpectedBody(Tail(runs))

\* the url of the last thumbnail of the emote, the empty string without image
ThumbnailUrl(run) ==
    IF "image" \in DOMAIN run.f.emoji.f
    THEN run.f.emoji.f.image.f.thumbnails.e[Len(run.f.emoji.f.image.f.thumbnails.e)].f.url
    ELSE JsString(<<>>)

EmoteRuns(runs) == SelectSeq(runs, IsEmoteRun)

ExpectedEmojis(runs) ==
    [i \in 1..Len(EmoteRuns(runs)) |->
        <<Placeholder(EmoteRuns(runs)[i]), ThumbnailUrl(EmoteRuns(runs)[i]),
          EmoteRuns(runs)[i].f.emoji.f.emojiId.s>>]

\* C12: the body of a text or paid message is the concatenation in run order
\* of the text of each text run and ':<emojiId>: ' for each emote run; emojis
\* holds one triple (':<emojiId>:', url, emojiId) per emote run, in run order;
\* any other run adds nothing; a single text run gives that text as the body
C12_BodyFromRuns ==
    ResolvedRecognized =>
        \A i \in 1..Len(Result.messages) :
            KeyOf(Kept(input.e)[i]) \in {TextR, PaidR} =>
                /\ Result.messages[i].message
                      = ExpectedBody(RunsOf(RendererOf(Kept(input.e)[i])))
                /\ Result.messages[i].emojis
                      = ExpectedEmojis(RunsOf(RendererOf(Kept(input.e)[i])))
                /\ (/\ Len(RunsOf(RendererOf(Kept(input.e)[i]))) = 1
                    /\ IsTextRun(RunsOf(RendererOf(Kept(input.e)[i]))[1]))
                   => Result.messages[i].message
                        = RunsOf(RendererOf(Kept(input.e)[i]))[1].f.text.s

\* a text message of a text run, an emote run and another run, and a paid
\* message of an emote run and a text run
C12_Witness ==
    /\ ResolvedRecognized
    /\ Len(Result.messages) = 2
    /\ KeyOf(Kept(input.e)[1]) = TextR
    /\ RunsOf(RendererOf(Kept(input.e)[1])) = <<TextRun, EmojiRun, OtherRun>>
    /\ Result.messages[1].message = <<"H", "i", " ", ":", "U", "C", "_", "h", ":", " ">>
    /\ Len(Result.messages[1].emojis) = 1
    /\ KeyOf(Kept(input.e)[2]) = PaidR
    /\ Result.messages[2].message = <<":", "U", "C", "_", "h", ":", " ", "H", "i", " ">>

(***************************************************************************)
(* JSON.parse on the texts of the model: null, true, false, strings        *)
(* without escapes, natural numbers, arrays and objects, with blanks        *)
(* between the tokens.  A parse gives <<value>>, a SyntaxError gives <<>>.  *)
(***************************************************************************)
Quote == "\""

JsonFail == [ok |-> FALSE]

JsonOk(value, rest) == [ok |-> TRUE, value |-> value, rest |-> rest]

RECURSIVE KeyText(_)
\* the property name spelled by the characters
KeyText(chars) == IF chars = <<>> THEN "" ELSE Head(chars) \o KeyText(Tail(chars))

\* a string literal at the start of t
JsonStringLiteral(t) ==
    IF t = <<>> \/ t[1] # Quote \/ IndexOf(Tail(t), <<Quote>>) = 0 THEN JsonFail
    ELSE JsonOk(JsString(SubSeq(t, 2, IndexOf(Tail(t), <<Quote>>))),
                Drop(t, IndexOf(Tail(t), <<Quote>>) + 1))

\* a number at the start of t; a leading zero stands alone
JsonNumber(t) ==
    IF t[1] = "0" THEN JsonOk(Number(0), Tail(t))
    ELSE JsonOk(Number(100 * IntValue(SubSeq(t, 1, LeadingCount(t, Digits)))),
                Drop(t, LeadingCount(t, Digits)))

RECURSIVE JsonValue(_), JsonMembers(_, _), JsonElements(_, _)

\* after the value of a member: '}' closes the object, ',' starts the next
AfterMember(t, fields) ==
    IF t = <<>> THEN JsonFail
    ELSE IF t[1] = "}" THEN JsonOk(JsObject(fields), Tail(t))
    ELSE IF t[1] = "," THEN JsonMembers(SkipSpaces(Tail(t)), fields)
    ELSE JsonFail

\* a later member of the same name replaces the earlier one
MemberValue(name, value, fields) ==
    IF ~value.ok THEN JsonFail
    ELSE AfterMember(SkipSpaces(value.rest), (name :> value.value) @@ fields)

MemberName(name, fields) ==
    IF ~name.ok \/ SkipSpaces(name.rest) = <<>> \/ SkipSpaces(name.rest)[1] # ":"
    THEN JsonFail
    ELSE MemberValue(KeyText(name.value.s), JsonValue(Tail(SkipSpaces(name.rest))), fields)

JsonMembers(t, fields) == MemberName(JsonStringLiteral(t), fields)

AfterElement(t, elements) ==
    IF t = <<>> THEN JsonFail
    ELSE IF t[1] = "]" THEN JsonOk(JsArray(elements), Tail(t))
    ELSE IF t[1] = "," THEN JsonElements(SkipSpaces(Tail(t)), elements)
    ELSE JsonFail

ElementValue(value, elements) ==
    IF ~value.ok THEN JsonFail
    ELSE AfterElement(SkipSpaces(value.rest), Append(elements, value.value))

JsonElements(t, elements) == ElementValue(JsonValue(t), elements)

JsonToken(t) ==
    IF t = <<>> THEN JsonFail
    ELSE IF StartsWith(t, <<"n", "u", "l", "l">>) THEN JsonOk(JsNull, Drop(t, 4))
    ELSE IF StartsWith(t, <<"t", "r", "u", "e">>) THEN JsonOk(JsBoolean(TRUE), Drop(t, 4))
    ELSE IF StartsWith(t, <<"f", "a", "l", "s", "e">>) THEN JsonOk(JsBoolean(FALSE), Drop(t, 5))
    ELSE IF t[1] = Quote THEN JsonStringLiteral(t)
    ELSE IF t[1] \in Digits THEN JsonNumber(t)
    ELSE IF t[1] = "{"
    THEN (IF SkipSpaces(Tail(t)) # <<>> /\ SkipSpaces(Tail(t))[1] = "}"
          THEN JsonOk(JsObject(NoFields), Tail(SkipSpaces(Tail(t))))
          ELSE JsonMembers(SkipSpaces(Tail(t)), NoFields))
    ELSE IF t[1] = "["
    THEN (IF SkipSpaces(Tail(t)) # <<>> /\ SkipSpaces(Tail(t))[1] = "]"
          THEN JsonOk(JsArray(<<>>), Tail(SkipSpaces(Tail(t))))
          ELSE JsonElements(SkipSpaces(Tail(t)), <<>>))
    ELSE JsonFail

JsonValue(t) == JsonToken(SkipSpaces(t))

WholeText(parsed) == IF parsed.ok /\ AllSpaces(parsed.rest) THEN <<parsed.value>> ELSE <<>>

\* JSON.parse(data): the argument is converted to its text first
JsonParse(data) == WholeText(JsonValue(ToText(data)))

(***************************************************************************)
(* Seed: the dispatcher of the envelopes of the chat socket.  Each call it *)
(* makes is kept as [fn, args]; a throw that leaves onChatSocketMessage is  *)
(* kept as [fn |-> "throw"].                                               *)
(***************************************************************************)
InjectMessageType == JsString(<<"i", "n", "j", "e", "c", "t", "_", "m", "e", "s", "s", "a", "g", "e">>)

Call(fn, args) == [fn |-> fn, args |-> args]

Thrown == [fn |-> "throw", args |-> <<>>]

\* handleServerCommand with no case for inject_message
handleServerCommand_NoInject(type, data) == <<Call("_debug", <<type, data>>)>>

\* Seed.handleServerCommand(type, data)
handleServerCommand(type, data) ==
    IF type = InjectMessageType THEN <<Call("injectMessage", <<data>>)>>
    ELSE <<Call("_debug", <<type, data>>)>>

\* the body of the try block of onChatSocketMessage, for a parsed envelope
DispatchEnvelope(message) ==
    IF IsNullish(message) THEN <<Thrown>>
    ELSE IF ~Truthy(Prop(message, "type")) THEN <<>>
    ELSE <<Call("handleServerCommand", <<Prop(message, "type"), Prop(message, "data")>>)>>
         \o handleServerCommand(Prop(message, "type"), Prop(message, "data"))

TryDispatch(parsed) == IF parsed = <<>> THEN <<Thrown>> ELSE DispatchEnvelope(parsed[1])

\* onChatSocketMessage without its catch
onChatSocketMessage_NoCatch(data) == TryDispatch(JsonParse(data))

\* Seed.onChatSocketMessage(ws, event) with event.data = data: what the try
\* block throws is caught
onChatSocketMessage(data) ==
    IF Thrown \in {TryDispatch(JsonParse(data))[i] : i \in 1..Len(TryDispatch(JsonParse(data)))}
    THEN <<>>
    ELSE TryDispatch(JsonParse(data))

(***************************************************************************)
(* The dispatcher on sequences of envelopes                                *)
(***************************************************************************)
MaxEnvelopes == 2

EnvInject ==
    JsString(<<"{", "\"", "t", "y", "p", "e", "\"", ":", "\"", "i", "n", "j", "e", "c", "t", "_", "m",
        "e", "s", "s", "a", "g", "e", "\"", ",", "\"", "d", "a", "t", "a", "\"", ":", "{", "\"",
        "u", "s", "e", "r", "n", "a", "m", "e", "\"", ":", "\"", "T", "\"", "}", "}">>)

EnvInjectNull ==
    JsString(<<"{", "\"", "t", "y", "p", "e", "\"", ":", "\"", "i", "n", "j", "e", "c", "t", "_", "m",
        "e", "s", "s", "a", "g", "e", "\"", ",", "\"", "d", "a", "t", "a", "\"", ":", "n", "u",
        "l", "l", "}">>)

EnvInjectNoData ==
    JsString(<<"{", "\"", "t", "y", "p", "e", "\"", ":", " ", "\"", "i", "n", "j", "e", "c", "t", "_",
        "m", "e", "s", "s", "a", "g", "e", "\"", "}">>)

EnvUnknown ==
    JsString(<<"{", "\"", "t", "y", "p", "e", "\"", ":", "\"", "x", "\"", ",", "\"", "d", "a", "t",
        "a", "\"", ":", "[", "t", "r", "u", "e", ",", "7", "]", "}">>)

EnvNoType ==
    JsString(<<"{", "\"", "f", "o", "o", "\"", ":", "\"", "b", "a", "r", "\"", "}">>)

EnvEmptyType ==
    JsString(<<"{", "\"", "t", "y", "p", "e", "\"", ":", "\"", "\"", ",", "\"", "d", "a", "t", "a",
        "\"", ":", "f", "a", "l", "s", "e", "}">>)

EnvNotJson ==
    JsString(<<"n", "o", "t", " ", "v", "a", "l", "i", "d", " ", "j", "s", "o", "n", " ", "{">>)

EnvTrailing ==
    JsString(<<"{", "\"", "t", "y", "p", "e", "\"", ":", "\"", "i", "n", "j", "e", "c", "t", "_", "m",
        "e", "s", "s", "a", "g", "e", "\"", "}", " ", "x">>)

EnvEmpty ==
    JsString(<<>>)

EnvJsonNull ==
    JsString(<<"n", "u", "l", "l">>)

EnvJsonNumber ==
    JsString(<<"7">>)

Envelopes ==
    {EnvInject, EnvInjectNull, EnvInjectNoData, EnvUnknown, EnvNoType, EnvEmptyType,
     EnvNotJson, EnvTrailing, EnvEmpty, EnvJsonNull, EnvJsonNumber, JsNull}

\* input holds the envelopes received so far
OnChatSocketMessage(data) ==
    /\ Len(input) < MaxEnvelopes
    /\ input' = Append(input, data)
    /\ calls' = calls \o onChatSocketMessage(data)
    /\ UNCHANGED <<channel, posted, recorded, warned, output, cssInjected, document, pending>>

SeedNext == \E data \in Envelopes : OnChatSocketMessage(data)

SeedSpec == Init /\ [][SeedNext]_vars

\* the step receives one envelope
Received == Len(input') = Len(input) + 1

\* the calls made by the step
NewCalls == SubSeq(calls', Len(calls) + 1, Len(calls'))

\* the envelope's text parses to an object whose type is inject_message
IsInjectEnvelope(data) ==
    /\ JsonParse(data) # <<>>
    /\ JsonParse(data)[1].t = "object"
    /\ "type" \in DOMAIN JsonParse(data)[1].f
    /\ JsonParse(data)[1].f.type = InjectMessageType

\* the data of a parsed envelope, undefined when it has none
DataOf(data) ==
    IF "data" \in DOMAIN JsonParse(data)[1].f THEN JsonParse(data)[1].f.data ELSE JsUndefined

\* C13: an envelope whose text parses to {type: 'inject_message', data: d}
\* makes onChatSocketMessage call handleServerCommand('inject_message', d),
\* which calls the injection handler exactly once with d, also for d null or
\* undefined, and nothing is thrown
C13_InjectDispatched ==
    [][(Received /\ IsInjectEnvelope(input'[Len(input')]))
          => NewCalls = <<Call("handleServerCommand",
                               <<InjectMessageType, DataOf(input'[Len(input')])>>),
                          Call("injectMessage", <<DataOf(input'[Len(input')])>>)>>]_vars

\* injection envelopes with an object, null and no data have been dispatched
C13_Witness ==
    /\ Len(input) = 2
    /\ input[1] = EnvInjectNull
    /\ input[2] = EnvInjectNoData
    /\ calls = <<Call("handleServerCommand", <<InjectMessageType, JsNull>>),
                 Call("injectMessage", <<JsNull>>),
                 Call("handleServerCommand", <<InjectMessageType, JsUndefined>>),
                 Call("injectMessage", <<JsUndefined>>)>>

\* the functions called by the step
NewFns == {NewCalls[i].fn : i \in 1..Len(NewCalls)}

\* the envelope's text parses as JSON to an object that has a type
ParsesWithType(data) ==
    /\ JsonParse(data) # <<>>
    /\ JsonParse(data)[1].t = "object"
    /\ "type" \in DOMAIN JsonParse(data)[1].f

\* a type that is a non-empty string other than inject_message
UnrecognizedType(data) ==
    /\ ParsesWithType(data)
    /\ JsonParse(data)[1].f.type.t = "string"
    /\ JsonParse(data)[1].f.type.s # <<>>
    /\ JsonParse(data)[1].f.type # InjectMessageType

\* C14: in any sequence of envelopes a handler is invoked only for an envelope
\* whose text parses as JSON and carries a type; unparsable text, the empty
\* string, null data and a parsed value without type invoke no handler and
\* throw nothing; an envelope of an unrecognized type never invokes the
\* injection handler and is only logged
C14_OnlyTypedEnvelopesDispatch ==
    [][Received =>
          /\ "throw" \notin NewFns
          /\ NewCalls # <<>> => ParsesWithType(input'[Len(input')])
          /\ ~ParsesWithType(input'[Len(input')]) => NewCalls = <<>>
          /\ UnrecognizedType(input'[Len(input')]) =>
                /\ "injectMessage" \notin NewFns
                /\ NewCalls[Len(NewCalls)]
                     = Call("_debug", <<JsonParse(input'[Len(input')])[1].f.type,
                                        DataOf(input'[Len(input')])>>)]_vars

\* unparsable text invoked nothing and an envelope of type 'x' was logged
C14_Witness ==
    /\ Len(input) = 2
    /\ input[1] = EnvNotJson
    /\ input[2] = EnvUnknown
    /\ Len(calls) = 2
    /\ calls[1].fn = "handleServerCommand"
    /\ calls[2].fn = "_debug"

(***************************************************************************)
(* Rumble: prepareSubscriptions(messages, users).  An event is              *)
(* [type, id, user_id, count], a user of the directory is [id, username].   *)
(***************************************************************************)
GiftPurchaseType == "gift_purchase_notification"
SubscriptionType == "notification"
ChatType == "chat"

\* the price of one subscription
SubscriptionValue == 5

IsSubscriptionEvent(event) == event.type \in {GiftPurchaseType, SubscriptionType}

\* users.find(u => u.id === id): <<user>>, or <<>> when there is none
FindUser(users, id) ==
    IF \E i \in 1..Len(users) : users[i].id = id
    THEN <<users[CHOOSE i \in 1..Len(users) :
                    /\ users[i].id = id
                    /\ \A j \in 1..(i - 1) : users[j].id # id]>>
    ELSE <<>>

\* the slot of one subscription event
SubscriptionSlot(event, found) ==
    IF found = <<>> THEN JsUndefined
    ELSE [id |-> event.id,
          gifted |-> event.type = GiftPurchaseType,
          buyer |-> found[1].username,
          count |-> IF event.type = GiftPurchaseType THEN event.count ELSE 1,
          value |-> SubscriptionValue]

\* the slots and the calls of this.log('User not found:', user_id) of a
\* sequence of subscription events
RECURSIVE SubscriptionSlots(_, _)
SubscriptionSlots(events, users) ==
    IF events = <<>> THEN [slots |-> <<>>, logged |-> <<>>]
    ELSE [slots |-> <<SubscriptionSlot(Head(events), FindUser(users, Head(events).user_id))>>
                    \o SubscriptionSlots(Tail(events), users).slots,
          logged |-> (IF FindUser(users, Head(events).user_id) = <<>>
                      THEN <<Head(events).user_id>> ELSE <<>>)
                     \o SubscriptionSlots(Tail(events), users).logged]

\* prepareSubscriptions with a slot for every event
prepareSubscriptions_NoFilter(events, users) == SubscriptionSlots(events, users)

\* Rumble.prepareSubscriptions(messages, users)
prepareSubscriptions(events, users) ==
    SubscriptionSlots(SelectSeq(events, IsSubscriptionEvent), users)

MaxEvents == 3

RumbleEvents ==
    {[type |-> GiftPurchaseType, id |-> "e1", user_id |-> "u1", count |-> 5],
     [type |-> GiftPurchaseType, id |-> "e2", user_id |-> "u3", count |-> 2],
     [type |-> SubscriptionType, id |-> "e3", user_id |-> "u2", count |-> 0],
     [type |-> ChatType, id |-> "e4", user_id |-> "u1", count |-> 0],
     [type |-> ChatType, id |-> "e5", user_id |-> "u3", count |-> 0]}

UserDirectories ==
    {<<>>,
     <<[id |-> "u1", username |-> "GenerousGifter"]>>,
     <<[id |-> "u2", username |-> "NewSubscriber"], [id |-> "u1", username |-> "GenerousGifter"]>>}

RumbleInit ==
    InitCall({[events |-> events, users |-> users] :
                 events \in UNION {[1..n -> RumbleEvents] : n \in 0..MaxEvents},
                 users \in UserDirectories})

RumbleNext == Return(prepareSubscriptions(input.events, input.users))

RumbleSpec == RumbleInit /\ [][RumbleNext]_vars

\* the subscription events of the input, in event order
Subscriptions == SelectSeq(input.events, LAMBDA e : e.type # ChatType)

InDirectory(id) == \E i \in 1..Len(input.users) : input.users[i].id = id

\* the user ids of the subscription events that are not in the directory
MissingBuyers == SelectSeq([i \in 1..Len(Subscriptions) |-> Subscriptions[i].user_id],
                           LAMBDA id : ~InDirectory(id))

\* C15: prepareSubscriptions gives one slot per subscription-type event, in
\* event order, and none for chat events; the slot is a record {id, gifted,
\* buyer, count, value} with the buyer of the directory when the user id is in
\* it, and undefined with one diagnostic naming the missing id when it is not
C15_OneSlotPerSubscription ==
    Returned =>
        /\ Len(Result.slots) = Len(Subscriptions)
        /\ \A i \in 1..Len(Subscriptions) :
              IF InDirectory(Subscriptions[i].user_id)
              THEN /\ DOMAIN Result.slots[i] = {"id", "gifted", "buyer", "count", "value"}
                   /\ Result.slots[i].id = Subscriptions[i].id
                   /\ Result.slots[i].gifted = (Subscriptions[i].type = GiftPurchaseType)
                   /\ \E j \in 1..Len(input.users) :
                         /\ input.users[j].id = Subscriptions[i].user_id
                         /\ Result.slots[i].buyer = input.users[j].username
              ELSE Result.slots[i] = JsUndefined
        /\ Result.logged = MissingBuyers

\* a chat event, a gift of a known buyer and a gift of a missing buyer
C15_Witness ==
    /\ Returned
    /\ Len(input.events) = 3
    /\ input.events[1].type = ChatType
    /\ Len(Result.slots) = 2
    /\ Result.slots[1] = [id |-> "e1", gifted |-> TRUE, buyer |-> "GenerousGifter",
                          count |-> 5, value |-> 5]
    /\ Result.slots[2] = JsUndefined
    /\ Result.logged = <<"u3">>

(***************************************************************************)
(* Facebook.onWebSocketMessage                                             *)
(***************************************************************************)
FacebookNamespace == "8f14e45f-ceea-467f-a184-bd5f3c4b7f2a"

FacebookPlatform == "Facebook"

\* event.data that is an ArrayBuffer of the bytes, or a Blob of the size
ArrayBuffer(bytes) == [t |-> "ArrayBuffer", bytes |-> bytes]
Blob(size) == [t |-> "Blob", size |-> size]

\* the characters of the codes 32 to 126
Ascii ==
    <<" ", "!", "\"", "#", "$", "%", "&", "'", "(", ")", "*", "+", ",", "-", ".", "/", "0", "1",
      "2", "3", "4", "5", "6", "7", "8", "9", ":", ";", "<", "=", ">", "?", "@", "A", "B", "C",
      "D", "E", "F", "G", "H", "I", "J", "K", "L", "M", "N", "O", "P", "Q", "R", "S", "T", "U",
      "V", "W", "X", "Y", "Z", "[", "\\", "]", "^", "_", "U+0060", "a", "b", "c", "d", "e", "f", "g",
      "h", "i", "j", "k", "l", "m", "n", "o", "p", "q", "r", "s", "t", "u", "v", "w", "x", "y",
      "z", "{", "|", "}", "~">>

\* String.fromCharCode(code); a character outside printable ASCII is written
\* '#' and its code
FromCharCode(code) ==
    IF code >= 32 /\ code < 127 THEN Ascii[code - 31] ELSE KeyText(<<"#">> \o NatText(code))

HexDigits == <<"0", "1", "2", "3", "4", "5", "6", "7", "8", "9", "a", "b", "c", "d", "e", "f">>

\* Array.from(bytes).map(b => b.toString(16).padStart(2, '0')).join('')
RECURSIVE HexOf(_)
HexOf(bytes) ==
    IF bytes = <<>> THEN <<>>
    ELSE <<HexDigits[(Head(bytes) \div 16) + 1], HexDigits[(Head(bytes) % 16) + 1]>>
         \o HexOf(Tail(bytes))

\* the readable text of the bytes, '.' for what is not printable
ReadableText(bytes) ==
    [i \in 1..Len(bytes) |->
        IF bytes[i] >= 32 /\ bytes[i] < 127 THEN FromCharCode(bytes[i]) ELSE "."]

\* s.slice(0, n)
Take(s, n) == SubSeq(s, 1, IF Len(s) < n THEN Len(s) ELSE n)

\* the string literal JSON.stringify writes for a text of printable characters
QuoteJson(s) ==
    <<Quote>> \o ReplaceAll(ReplaceAll(s, <<"\\">>, <<"\\", "\\">>), <<Quote>>, <<"\\", Quote>>)
    \o <<Quote>>

\* JSON.stringify({hex: hex.slice(0, 2000), text: text.slice(0, 1000), size: bytes.length})
StringifyBinary(bytes) ==
    <<"{", Quote, "h", "e", "x", Quote, ":">> \o QuoteJson(Take(HexOf(bytes), 2000))
    \o <<",", Quote, "t", "e", "x", "t", Quote, ":">> \o QuoteJson(Take(ReadableText(bytes), 1000))
    \o <<",", Quote, "s", "i", "z", "e", Quote, ":">> \o NatText(Len(bytes)) \o <<"}">>

\* JSON.stringify({type: 'blob', size: event.data.size})
StringifyBlob(size) ==
    <<"{", Quote, "t", "y", "p", "e", Quote, ":", Quote, "b", "l", "o", "b", Quote, ",",
      Quote, "s", "i", "z", "e", Quote, ":">> \o NatText(size) \o <<"}">>

\* json[String(i)]
JsIndex(json, i) ==
    CASE IsNullish(json) -> TypeError
      [] json.t = "array" -> IF i < Len(json.e) THEN json.e[i + 1] ELSE JsUndefined
      [] json.t = "string" -> IF i < Len(json.s) THEN JsString(<<json.s[i + 1]>>) ELSE JsUndefined
      [] json.t = "object" ->
            IF KeyText(NatText(i)) \in DOMAIN json.f THEN json.f[KeyText(NatText(i))]
            ELSE JsUndefined
      [] OTHER -> JsUndefined

\* Object.keys(json).length
KeysLength(json) ==
    CASE json.t = "array" -> Len(json.e)
      [] json.t = "string" -> Len(json.s)
      [] json.t = "object" -> Cardinality(DOMAIN json.f)
      [] OTHER -> 0

\* the code unit String.fromCharCode makes of a value
CodeUnit(v) ==
    CASE v.t = "number" -> (v.hundredths \div 100) % 65536
      [] v.t = "boolean" -> IF v.b THEN 1 ELSE 0
      [] v.t = "string" /\ v.s # <<>> /\ LeadingCount(v.s, Digits) = Len(v.s) -> IntValue(v.s) % 65536
      [] OTHER -> 0

\* the loop that decodes the entries from index i on
RECURSIVE DecodeFrom(_, _)
DecodeFrom(json, i) ==
    IF i >= KeysLength(json) THEN <<>>
    ELSE (IF JsIndex(json, i) # JsUndefined THEN <<FromCharCode(CodeUnit(JsIndex(json, i)))>>
          ELSE <<>>)
         \o DecodeFrom(json, i + 1)

Includes(s, p) == IndexOf(s, p) # 0

S_streaming_comment == <<"s", "t", "r", "e", "a", "m", "i", "n", "g", "_", "c", "o", "m", "m", "e", "n", "t">>
S_client_receive == <<"c", "l", "i", "e", "n", "t", "_", "r", "e", "c", "e", "i", "v", "e">>
S_STREAMING_REACTION == <<"S", "T", "R", "E", "A", "M", "I", "N", "G", "_", "R", "E", "A", "C", "T", "I", "O", "N">>

\* what the handler leaves behind: the artifacts recorded, the messages sent,
\* the calls of this.log, and whether a throw leaves the handler
SocketEffect(artifacts) ==
    [recorded |-> artifacts, posted |-> <<>>, logged |-> 0, raised |-> FALSE]

\* the artifact of a frame in the Gateway numeric-indexed format
GatewayArtifact(decoded) ==
    IF Includes(decoded, S_streaming_comment) \/ Includes(decoded, S_client_receive)
    THEN Artifact("UNHANDLED", decoded, "gateway_comment_event")
    ELSE IF Includes(decoded, S_STREAMING_REACTION)
    THEN Artifact("UNHANDLED", decoded, "gateway_reaction")
    ELSE Artifact("UNHANDLED", Take(decoded, 1000), "gateway_message")

\* the inner try block on a parsed text: <<>> when it throws
ParsedFrameArtifact(json, data) ==
    IF JsIndex(json, 0) = TypeError THEN <<>>
    ELSE IF JsIndex(json, 0).t \in {"number", "NaN"} /\ KeysLength(json) > 10
    THEN <<GatewayArtifact(DecodeFrom(json, 6))>>
    ELSE <<Artifact("UNHANDLED", data, "json")>>

\* the inner try block: JSON.parse throws on a text that does not parse
TextFrameArtifact(parsed, data) ==
    IF parsed = <<>> THEN <<>> ELSE ParsedFrameArtifact(parsed[1], data)

\* the inner try with its catch
TextFrame(tried, data) ==
    IF tried = <<>> THEN SocketEffect(<<Artifact("UNHANDLED", data, "text")>>)
    ELSE SocketEffect(tried)

\* onWebSocketMessage whose inner try has no catch: the outer catch logs
Facebook_onWebSocketMessage_NoInnerCatch(data) ==
    IF data.t = "ArrayBuffer"
    THEN SocketEffect(<<Artifact("UNHANDLED", StringifyBinary(data.bytes), "mqtt_binary")>>)
    ELSE IF data.t = "Blob"
    THEN SocketEffect(<<Artifact("UNHANDLED", StringifyBlob(data.size), "mqtt_blob")>>)
    ELSE IF TextFrameArtifact(JsonParse(data), data) = <<>>
    THEN [SocketEffect(<<>>) EXCEPT !.logged = 1]
    ELSE SocketEffect(TextFrameArtifact(JsonParse(data), data))

\* Facebook.onWebSocketMessage(ws, event) with event.data = data
Facebook_onWebSocketMessage(data) ==
    IF data.t = "ArrayBuffer"
    THEN SocketEffect(<<Artifact("UNHANDLED", StringifyBinary(data.bytes), "mqtt_binary")>>)
    ELSE IF data.t = "Blob"
    THEN SocketEffect(<<Artifact("UNHANDLED", StringifyBlob(data.size), "mqtt_blob")>>)
    ELSE TextFrame(TextFrameArtifact(JsonParse(data), data), data)

S_unknown == <<"u", "n", "k", "n", "o", "w", "n">>
S_BinaryMqttData == <<"[", "B", "i", "n", "a", "r", "y", " ", "M", "Q", "T", "T", " ", "d", "a", "t", "a", "]">>

\* the inner try block of the capture-only adapter: json.type of null throws
CaptureFrameArtifact(parsed, data) ==
    IF parsed = <<>> \/ Prop(parsed[1], "type") = TypeError THEN <<>>
    ELSE <<Artifact("UNHANDLED", data, "json")>>

\* onWebSocketMessage of the capture-only adapter (recorder.recordWebSocket)
FacebookCapture_onWebSocketMessage(data) ==
    IF data.t \in {"ArrayBuffer", "Blob"}
    THEN SocketEffect(<<Artifact("UNHANDLED", S_BinaryMqttData, "mqtt_binary")>>)
    ELSE TextFrame(CaptureFrameArtifact(JsonParse(data), data), data)

(***************************************************************************)
(* The Facebook adapters driven by inbound socket frames                   *)
(***************************************************************************)
MaxFrames == 2

FrameJsonObject ==
    JsString(<<"{", "\"", "t", "y", "p", "e", "\"", ":", "\"", "x", "\"", "}">>)

FrameJsonNull ==
    JsString(<<"n", "u", "l", "l">>)

FrameJsonNumber ==
    JsString(<<"7">>)

FrameJsonString ==
    JsString(<<"\"", "s", "t", "r", "e", "a", "m", "i", "n", "g", "_", "c", "o", "m", "m", "e", "n",
        "t", "\"">>)

FrameJsonTrue ==
    JsString(<<"t", "r", "u", "e">>)

FrameNotJson ==
    JsString(<<"h", "i", " ", "{">>)

FrameShortArray ==
    JsString(<<"[", "1", ",", "2", ",", "3", "]">>)

FrameGatewayComment ==
    JsString(<<"[", "1", ",", "2", ",", "3", ",", "4", ",", "5", ",", "6", ",", "9", "9", ",", "1",
        "0", "8", ",", "1", "0", "5", ",", "1", "0", "1", ",", "1", "1", "0", ",", "1", "1", "6",
        ",", "9", "5", ",", "1", "1", "4", ",", "1", "0", "1", ",", "9", "9", ",", "1", "0", "1",
        ",", "1", "0", "5", ",", "1", "1", "8", ",", "1", "0", "1", "]">>)

FrameGatewayReaction ==
    JsString(<<"[", "1", ",", "2", ",", "3", ",", "4", ",", "5", ",", "6", ",", "8", "3", ",", "8",
        "4", ",", "8", "2", ",", "6", "9", ",", "6", "5", ",", "7", "7", ",", "7", "3", ",", "7",
        "8", ",", "7", "1", ",", "9", "5", ",", "8", "2", ",", "6", "9", ",", "6", "5", ",", "6",
        "7", ",", "8", "4", ",", "7", "3", ",", "7", "9", ",", "7", "8", "]">>)

FrameGatewayOther ==
    JsString(<<"[", "1", ",", "2", ",", "3", ",", "4", ",", "5", ",", "6", ",", "1", "0", "4", ",",
        "1", "0", "1", ",", "1", "0", "8", ",", "1", "0", "8", ",", "1", "1", "1", "]">>)

FrameGatewayObject ==
    JsString(<<"{", "\"", "0", "\"", ":", "1", ",", "\"", "a", "\"", ":", "2", ",", "\"", "b", "\"",
        ":", "3", ",", "\"", "c", "\"", ":", "4", ",", "\"", "d", "\"", ":", "5", ",", "\"", "e",
        "\"", ":", "6", ",", "\"", "6", "\"", ":", "1", "0", "4", ",", "\"", "7", "\"", ":", "1",
        "0", "5", ",", "\"", "f", "\"", ":", "7", ",", "\"", "g", "\"", ":", "8", ",", "\"", "h",
        "\"", ":", "9", "}">>)

SocketFrames ==
    {ArrayBuffer(<<>>), ArrayBuffer(<<104, 105>>), ArrayBuffer(<<0, 34, 92, 255>>),
     Blob(0), Blob(9),
     FrameJsonObject, FrameJsonNull, FrameJsonNumber, FrameJsonString, FrameJsonTrue,
     FrameNotJson, JsString(<<>>), FrameShortArray, FrameGatewayComment,
     FrameGatewayReaction, FrameGatewayOther, FrameGatewayObject}

\* the adapter after a handler with the effect; input holds the frames
\* received so far and a throw that leaves the handler is kept in calls
ApplySocketEffect(data, effect) ==
    /\ Len(input) < MaxFrames
    /\ input' = Append(input, data)
    /\ recorded' = recorded \o effect.recorded
    /\ posted' = posted \o effect.posted
    /\ calls' = calls \o (IF effect.raised THEN <<Thrown>> ELSE <<>>)
    /\ UNCHANGED <<channel, warned, output, cssInjected, document, pending>>

OnFacebookSocketMessage(data) == ApplySocketEffect(data, Facebook_onWebSocketMessage(data))

OnFacebookCaptureSocketMessage(data) ==
    ApplySocketEffect(data, FacebookCapture_onWebSocketMessage(data))

FacebookSocketNext ==
    \E data \in SocketFrames :
        \/ OnFacebookSocketMessage(data)
        \/ OnFacebookCaptureSocketMessage(data)

FacebookSocketSpec == Init /\ [][FacebookSocketNext]_vars

\* C18: for every inbound socket frame (binary buffer, blob, JSON text,
\* non-JSON text, JSON null, a JSON primitive) onWebSocketMessage never
\* throws, records exactly one artifact and delivers no message
C18_OneArtifactPerFrame ==
    /\ Len(recorded) = Len(input)
    /\ posted = <<>>
    /\ calls = <<>>

\* JSON null was recorded as text and a Gateway frame was decoded
C18_Witness ==
    /\ input = <<FrameJsonNull, FrameGatewayComment>>
    /\ Len(recorded) = 2
    /\ recorded[1] = Artifact("UNHANDLED", FrameJsonNull, "text")
    /\ recorded[2] = Artifact("UNHANDLED", S_client_receive, "gateway_comment_event")

(***************************************************************************)
(* Facebook.parseComment                                                   *)
(***************************************************************************)
S_Unknown == <<"U", "n", "k", "n", "o", "w", "n">>
S_moderator == <<"m", "o", "d", "e", "r", "a", "t", "o", "r">>
S_top_fan == <<"t", "o", "p", "_", "f", "a", "n">>
S_rising_fan == <<"r", "i", "s", "i", "n", "g", "_", "f", "a", "n">>
S_tipper == <<"t", "i", "p", "p", "e", "r">>
S_gaming_partner == <<"g", "a", "m", "i", "n", "g", "_", "p", "a", "r", "t", "n", "e", "r">>

\* new ChatMessage(uuidv5(commentData.id, this.namespace), this.platform,
\* this.channel): username, avatar and sent_at are as the constructor leaves
\* them until the adapter assigns them
FacebookMessage(nativeId, chan) ==
    [username |-> Unassigned, avatar |-> Unassigned, sent_at |-> Unassigned,
     message |-> JsString(<<>>), is_verified |-> JsBoolean(FALSE)]
    @@ ChatMessage(uuidv5(nativeId, FacebookNamespace), FacebookPlatform, chan)

\* what for (const badge of list) iterates over; TypeError stands for a list
\* that is not iterable
BadgeList(list) ==
    CASE ~Truthy(list) -> <<>>
      [] list.t = "array" -> list.e
      [] list.t = "string" -> [i \in 1..Len(list.s) |-> JsString(<<list.s[i]>>)]
      [] OTHER -> <<TypeError>>

\* reading a field of some badge of the loop throws
BadgeLoopThrows(badges) ==
    \E i \in 1..Len(badges) : badges[i] = TypeError \/ IsNullish(badges[i])

\* !badge.is_earned && !badge.is_enabled
NotEarned(badge) == ~Truthy(Prop(badge, "is_earned")) /\ ~Truthy(Prop(badge, "is_enabled"))

\* some badge that the loop does not skip has one of the types
HasBadgeType(badges, types, skipNotEarned) ==
    \E i \in 1..Len(badges) :
        /\ ~(skipNotEarned /\ NotEarned(badges[i]))
        /\ Prop(badges[i], "identity_badge_type") \in {JsString(type) : type \in types}

\* commentData.created_time * 1000
TimesThousand(v) ==
    CASE v.t = "number" -> Number(1000 * v.hundredths)
      [] v.t = "string" /\ LeadingCount(v.s, Digits) = Len(v.s) -> Number(100000 * IntValue(v.s))
      [] v.t = "boolean" -> Number(IF v.b THEN 100000 ELSE 0)
      [] OTHER -> NaN

\* the message after the author block
WithAuthor(message, author) ==
    IF ~Truthy(author) THEN message
    ELSE [message EXCEPT
            !.username = JsOr(Prop(author, "name"), JsString(S_Unknown)),
            !.avatar = JsOr(OptProp(Prop(author, "profile_picture_depth_0"), "uri"),
                            OptProp(Prop(author, "profile_picture_depth_1"), "uri")),
            !.is_verified = JsOr(Prop(author, "is_verified"), JsBoolean(FALSE))]

\* the message after the timestamp and the two badge loops
WithBadges(message, created, discoverable, earned) ==
    [message EXCEPT
       !.sent_at = IF Truthy(created) THEN TimesThousand(created) ELSE @,
       !.is_mod = \/ HasBadgeType(discoverable, {S_moderator}, TRUE)
                  \/ HasBadgeType(earned, {S_moderator}, FALSE),
       !.is_sub = \/ HasBadgeType(discoverable, {S_top_fan, S_rising_fan, S_tipper}, TRUE)
                  \/ HasBadgeType(earned, {S_top_fan, S_rising_fan, S_tipper}, FALSE),
       !.is_owner = HasBadgeType(discoverable, {S_gaming_partner}, TRUE)]

\* parseComment from the constructor call on
CommentMessage(commentData, chan) ==
    [WithAuthor(FacebookMessage(Prop(commentData, "id"), chan), Prop(commentData, "author"))
       EXCEPT !.message = JsOr(JsOr(OptProp(Prop(commentData, "preferred_body"), "text"),
                                    OptProp(Prop(commentData, "body"), "text")),
                               JsString(<<>>))]

\* Facebook.parseComment(commentData): null, a message, or a throw
parseComment(commentData, chan) ==
    IF ~Truthy(commentData) \/ ~Truthy(Prop(commentData, "id")) THEN [kind |-> "null"]
    ELSE IF \/ BadgeLoopThrows(BadgeList(Prop(commentData, "discoverable_identity_badges_web")))
            \/ BadgeLoopThrows(BadgeList(Prop(commentData, "identity_badges_web")))
    THEN [kind |-> "raised"]
    ELSE [kind |-> "message",
          message |-> WithBadges(CommentMessage(commentData, chan),
                                 Prop(commentData, "created_time"),
                                 BadgeList(Prop(commentData, "discoverable_identity_badges_web")),
                                 BadgeList(Prop(commentData, "identity_badges_web")))]

(***************************************************************************)
(* parseComment on single comments                                         *)
(***************************************************************************)
CommentText == JsObject([text |-> JsString(<<"h", "i">>)])

Badge(type, earned) ==
    JsObject([identity_badge_type |-> JsString(type), is_earned |-> JsBoolean(earned)])

CommentIds == {[id |-> JsString(<<"c", "1">>)], [id |-> JsString(<<>>)], NoFields}

CommentAuthors ==
    {NoFields,
     [author |-> JsNull],
     [author |-> JsObject(NoFields)],
     [author |-> JsObject([name |-> JsString(<<"A", "l">>), is_verified |-> JsBoolean(TRUE),
                           profile_picture_depth_0 |-> JsObject([uri |-> JsString(<<"a", ".", "j", "p", "g">>)])])]}

CommentBodies == {NoFields, [preferred_body |-> CommentText], [body |-> CommentText]}

CommentBadges ==
    {NoFields,
     [discoverable_identity_badges_web |-> JsArray(<<Badge(S_moderator, TRUE)>>)],
     [discoverable_identity_badges_web |-> JsArray(<<Badge(S_moderator, FALSE)>>)],
     [discoverable_identity_badges_web |->
        JsArray(<<Badge(S_top_fan, TRUE), Badge(S_gaming_partner, TRUE)>>)],
     [identity_badges_web |-> JsArray(<<Badge(S_tipper, FALSE)>>)],
     [identity_badges_web |-> JsArray(<<JsNull>>)],
     [discoverable_identity_badges_web |-> JsObject(NoFields)]}

CommentTimes == {NoFields, [created_time |-> Number(500)]}

Comments ==
    {JsObject(id @@ author @@ body @@ badges @@ time) :
        id \in CommentIds, author \in CommentAuthors, body \in CommentBodies,
        badges \in CommentBadges, time \in CommentTimes}
    \cup {JsNull, JsUndefined}

CommentInit == InitCall(Comments)

CommentNext == Return(parseComment(input, channel))

CommentSpec == CommentInit /\ [][CommentNext]_vars

\* the comment is an object with a non-empty id
HasId(comment) ==
    /\ comment.t = "object"
    /\ "id" \in DOMAIN comment.f
    /\ comment.f.id # JsString(<<>>)

\* the comment has no author sub-object
NoAuthor(comment) == "author" \notin DOMAIN comment.f \/ comment.f.author = JsNull

\* C19: parseComment returns a message for every comment that has an id, also
\* when the comment has no author sub-object, and then the username of the
\* message is the placeholder 'Unknown'; it returns null only when the comment
\* or its id is missing
C19_MessageForEveryId ==
    Returned =>
        /\ HasId(input) => Result.kind = "message"
        /\ (HasId(input) /\ NoAuthor(input) /\ Result.kind = "message")
              => Result.message.username = JsString(S_Unknown)
        /\ Result.kind = "null" => ~HasId(input)

(***************************************************************************)
(* Facebook.handleGraphQLResponse and YouTube.receiveChatMessages          *)
(***************************************************************************)
\* the end of handleGraphQLResponse for the outcome of parseComment
CommentHandled(outcome) ==
    IF outcome.kind = "raised" THEN [posted |-> <<>>, handled |-> FALSE, raised |-> TRUE]
    ELSE IF outcome.kind = "message" /\ Truthy(outcome.message.message)
    THEN [posted |-> <<outcome.message>>, handled |-> TRUE, raised |-> FALSE]
    ELSE [posted |-> <<>>, handled |-> FALSE, raised |-> FALSE]

\* Facebook.handleGraphQLResponse(json)
handleGraphQLResponse(json, chan) ==
    IF ~Truthy(json) \/ ~Truthy(Prop(json, "data"))
    THEN [posted |-> <<>>, handled |-> FALSE, raised |-> FALSE]
    ELSE IF Truthy(OptProp(Prop(Prop(json, "data"), "comment_create"), "comment"))
    THEN CommentHandled(parseComment(Prop(Prop(Prop(json, "data"), "comment_create"), "comment"), chan))
    ELSE [posted |-> <<>>, handled |-> FALSE, raised |-> FALSE]

\* the messages handed to sendChatMessages once the promise of
\* prepareChatMessages has settled
SentWhenResolved(outcome) == IF outcome.kind = "resolved" THEN outcome.messages ELSE <<>>

\* YouTube.receiveChatMessages(json)
receiveChatMessages(json, chan) == SentWhenResolved(prepareChatMessages(json, chan))

(***************************************************************************)
(* The three adapters preparing events of given native ids                 *)
(***************************************************************************)
MaxPrepared == 3

NativeIds == {<<"a", "1">>, <<"b", "2">>}

\* @id=<n> :tu!tu@h PRIVMSG #sc :Hi
TwitchLine(n) ==
    <<"@", "i", "d", "=">> \o n
    \o <<" ", ":", "t", "u", "!", "t", "u", "@", "h", " ", "P", "R", "I", "V", "M", "S", "G",
         " ", "#", "s", "c", " ", ":", "H", "i">>

YouTubeActions(n) ==
    JsArray(<<ActionOf(TextR, JsObject([id |-> JsString(n), authorName |-> AuthorName,
                                        authorPhoto |-> AuthorPhoto,
                                        message |-> JsObject([runs |-> JsArray(<<TextRun>>)])]
                                       @@ Timestamp))>>)

FacebookResponse(n) ==
    JsObject([data |-> JsObject([comment_create |->
        JsObject([comment |-> JsObject([id |-> JsString(n), body |-> CommentText])])])])

\* the ids of the messages
IdsOf(messages) == [i \in 1..Len(messages) |-> messages[i].id]

\* input holds, for every event prepared so far, the platform, the native id
\* and the ids stamped on the messages it gave
Prepared(platform, n, messages, artifacts) ==
    /\ Len(input) < MaxPrepared
    /\ input' = Append(input, [platform |-> platform, native |-> n, ids |-> IdsOf(messages)])
    /\ posted' = posted \o messages
    /\ recorded' = recorded \o artifacts
    /\ UNCHANGED <<channel, warned, calls, output, cssInjected, document, pending>>

\* an adapter that numbers its messages instead of deriving the id
Prepared_Numbered(platform, n, messages, artifacts) ==
    /\ Len(input) < MaxPrepared
    /\ input' = Append(input, [platform |-> platform, native |-> n,
                               ids |-> [i \in 1..Len(messages) |-> Len(posted) + i]])
    /\ posted' = posted \o [i \in 1..Len(messages) |-> [messages[i] EXCEPT !.id = Len(posted) + i]]
    /\ recorded' = recorded \o artifacts
    /\ UNCHANGED <<channel, warned, calls, output, cssInjected, document, pending>>

\* a Twitch adapter that numbers its messages
TwitchPrepares_Numbered(n) ==
    Prepared_Numbered(TwitchPlatform, n, WebSocketMessageEffect(TwitchLine(n), channel).posted,
                      WebSocketMessageEffect(TwitchLine(n), channel).recorded)

TwitchPrepares(n) ==
    Prepared(TwitchPlatform, n, WebSocketMessageEffect(TwitchLine(n), channel).posted,
             WebSocketMessageEffect(TwitchLine(n), channel).recorded)

YouTubePrepares(n) ==
    Prepared(YouTubePlatform, n, receiveChatMessages(YouTubeActions(n), channel), <<>>)

FacebookPrepares(n) ==
    Prepared(FacebookPlatform, n, handleGraphQLResponse(FacebookResponse(n), channel).posted, <<>>)

IdNext ==
    \E n \in NativeIds :
        \/ TwitchPrepares(n)
        \/ YouTubePrepares(n)
        \/ FacebookPrepares(n)

IdSpec == Init /\ [][IdNext]_vars

C17_PlatformsNeverShareId ==
    /\ TwitchNamespace # YouTubeNamespace
    /\ TwitchNamespace # FacebookNamespace
    /\ YouTubeNamespace # FacebookNamespace
    /\ \A i, j \in 1..Len(input) :
          (input[i].platform # input[j].platform /\ input[i].native = input[j].native)
              => /\ Len(input[i].ids) = 1
                 /\ Len(input[j].ids) = 1
                 /\ input[i].ids[1] # input[j].ids[1]

\* the three adapters have prepared events of one native id
C17_Witness ==
    /\ Len(input) = 3
    /\ {input[i].platform : i \in 1..3} = {TwitchPlatform, YouTubePlatform, FacebookPlatform}
    /\ \A i \in 1..3 : input[i].native = <<"a", "1">> /\ Len(input[i].ids) = 1
    /\ Len(posted) = 3

(***************************************************************************)
(* prepareChatMessage on PRIVMSG frames of given role tags                 *)
(***************************************************************************)
BadgesModerator == <<"m", "o", "d", "e", "r", "a", "t", "o", "r", "/", "1">>
BadgesSubscriberPartner == <<"s", "u", "b", "s", "c", "r", "i", "b", "e", "r", "/", "1", "2", ",", "p", "a", "r", "t", "n", "e", "r", "/", "1">>
BadgesBroadcaster == <<"b", "r", "o", "a", "d", "c", "a", "s", "t", "e", "r", "/", "1">>
BadgesNoVersion == <<"m", "o", "d", "e", "r", "a", "t", "o", "r">>
BadgesOtherName == <<"x", "m", "o", "d", "e", "r", "a", "t", "o", "r", "/", "1", ",", "v", "i", "p", "/", "1">>

\* a tag that is absent, or present with the value
Absent == <<>>
Present(value) == <<value>>

RoleTagValues == {Absent, Present(<<"0">>), Present(<<"1">>)}

BadgesTagValues ==
    {Absent, Present(<<>>), Present(BadgesModerator), Present(BadgesSubscriberPartner),
     Present(BadgesBroadcaster), Present(BadgesNoVersion), Present(BadgesOtherName)}

RoleFrames ==
    [id : {Absent, Present(<<"a", "1">>)}, mod : RoleTagValues, subscriber : RoleTagValues,
     badges : BadgesTagValues]

\* key=value of a present tag
TagPair(key, tag) == IF tag = Absent THEN <<>> ELSE <<key \o <<"=">> \o tag[1]>>

\* the line of the frame: the tag block of the present tags, if any, before
\* :tu!tu@h PRIVMSG #sc :Hi
RoleLine(frame) ==
    (IF frame.id = Absent /\ frame.mod = Absent /\ frame.subscriber = Absent /\ frame.badges = Absent
     THEN <<>>
     ELSE <<"@">> \o Join(TagPair(T_id, frame.id) \o TagPair(T_mod, frame.mod)
                          \o TagPair(T_subscriber, frame.subscriber)
                          \o TagPair(T_badges, frame.badges), <<";">>) \o <<" ">>)
    \o <<":", "t", "u", "!", "t", "u", "@", "h", " ", "P", "R", "I", "V", "M", "S", "G",
         " ", "#", "s", "c", " ", ":", "H", "i">>

RoleInit == InitCall(RoleFrames)

RoleNext == Return(prepareChatMessage(parseIrcMessageToJson(RoleLine(input)), channel))

RoleSpec == RoleInit /\ [][RoleNext]_vars

\* the badges tag lists an entry name/version
HasRoleEntry(tag, name) ==
    /\ tag # Absent
    /\ \E i \in 1..Len(Split(tag[1], <<",">>)) :
          /\ Len(Split(tag[1], <<",">>)[i]) > Len(name)
          /\ SubSeq(Split(tag[1], <<",">>)[i], 1, Len(name) + 1) = name \o <<"/">>

\* C20: for every parsed PRIVMSG frame with an id prepareChatMessage sets
\* is_mod iff the tag mod is '1' or the badges list a moderator entry, is_sub
\* iff the tag subscriber is '1' or the badges list a subscriber entry,
\* is_owner iff the badges list a broadcaster entry and is_verified iff they
\* list a partner entry; without badges and role tags the four flags are false
C20_RoleFlags ==
    (Returned /\ input.id # Absent) =>
        /\ Len(Result.message) = 1
        /\ Result.message[1].is_mod
              <=> (input.mod = Present(<<"1">>) \/ HasRoleEntry(input.badges, B_moderator))
        /\ Result.message[1].is_sub
              <=> (input.subscriber = Present(<<"1">>) \/ HasRoleEntry(input.badges, B_subscriber))
        /\ Result.message[1].is_owner <=> HasRoleEntry(input.badges, B_broadcaster)
        /\ Result.message[1].is_verified <=> HasRoleEntry(input.badges, B_partner)
        /\ (input.mod = Absent /\ input.subscriber = Absent /\ input.badges = Absent)
              => /\ ~Result.message[1].is_mod
                 /\ ~Result.message[1].is_sub
                 /\ ~Result.message[1].is_owner
                 /\ ~Result.message[1].is_verified

\* a moderator by tag only whose badges make them subscriber and partner
C20_Witness ==
    /\ Returned
    /\ input.id # Absent
    /\ input.mod = Present(<<"1">>)
    /\ input.subscriber = Present(<<"0">>)
    /\ input.badges = Present(BadgesSubscriberPartner)
    /\ Result.message[1].is_mod
    /\ Result.message[1].is_sub
    /\ Result.message[1].is_verified
    /\ ~Result.message[1].is_owner

(***************************************************************************)
(* paymentValue: the amount that comes with a currency code                *)
(***************************************************************************)
\* the text holds a digit
HoldsDigit(text) == \E i \in 1..Len(text) : text[i] \in Digits

\* C30: whenever paymentValue returns a non-null currency code the amount is
\* a number obtained from at least one digit, never not-a-number; a text
\* whose amount part holds no digit gives no currency
C30_CurrencyHasNumericAmount ==
    (Returned /\ Result[1] # null) =>
        /\ Result[2].t = "number"
        /\ HoldsDigit(TextOf(input))


(***************************************************************************)
(* parseEmotes on emotes tags of up to MaxGroups groups                    *)
(***************************************************************************)
\* the most emote groups in one emotes tag
MaxGroups == 2

\* one emote group each: two emotes in the text, one emote at two places, a
\* reversed range, a range that is no number, a range past the end of the
\* text, an empty group and a group without a colon
EmoteGroups ==
    {<<"1", ":", "0", "-", "1">>,
     <<"2", ":", "3", "-", "4">>,
     <<"1", ":", "0", "-", "1", ",", "6", "-", "7">>,
     <<"3", ":", "4", "-", "3">>,
     <<"3", ":", "x", "-", "y">>,
     <<"3", ":", "6", "-", "9">>,
     <<>>,
     <<"9">>}

RECURSIVE GroupSeqs(_)
GroupSeqs(n) ==
    IF n = 0 THEN {<<>>}
    ELSE GroupSeqs(n - 1) \cup
         {gs \o <<g>> : gs \in {x \in GroupSeqs(n - 1) : Len(x) = n - 1}, g \in EmoteGroups}

EmoteTexts == {<<"a", "b", " ", "c", "d", " ", "a", "b">>, <<"a", "b", " ", "c", "d">>}

EmoteInputs ==
    {[emotes |-> Join(gs, <<"/">>), message |-> text] :
        gs \in GroupSeqs(MaxGroups), text \in EmoteTexts}

EmoteInit == InitCall(EmoteInputs)

EmoteNext == Return(parseEmotes(input.emotes, input.message))

EmoteSpec == EmoteInit /\ [][EmoteNext]_vars

\* C23: the emotes of a message are listed in the order of their first
\* appearance in the message text, whatever the order of the groups in the tag
C23_EmotesInTextOrder ==
    Returned =>
        \A i, j \in 1..Len(Result) :
            i < j => IndexOf(input.message, Result[i][1]) <= IndexOf(input.message, Result[j][1])


(***************************************************************************)
(* The Twitch adapter on a stream of payloads, the last payload kept in    *)
(* input                                                                   *)
(***************************************************************************)
\* :t CLEARCHAT #sc :tu
LineClearChat == <<":", "t", " ", "C", "L", "E", "A", "R", "C", "H", "A", "T", " ", "#", "s", "c", " ", ":", "t", "u">>

\* @mod=0 :t USERSTATE #sc
LineUserState == <<"@", "m", "o", "d", "=", "0", " ", ":", "t", " ", "U", "S", "E", "R", "S", "T", "A", "T", "E", " ", "#", "s", "c">>

\* :tu!tu@h JOIN #sc
LineJoin == <<":", "t", "u", "!", "t", "u", "@", "h", " ", "J", "O", "I", "N", " ", "#", "s", "c">>

\* :t 001 tu :Hi
LineWelcome == <<":", "t", " ", "0", "0", "1", " ", "t", "u", " ", ":", "H", "i">>

\* @id=b7 :mo!mo@h PRIVMSG #sc :Yo
LinePrivMsgOther ==
    <<"@", "i", "d", "=", "b", "7", " ", ":", "m", "o", "!", "m", "o", "@", "h", " ", "P", "R",
    "I", "V", "M", "S", "G", " ", "#", "s", "c", " ", ":", "Y", "o">>

SocketLines ==
    SampleLines \cup {LineClearChat, LineUserState, LineJoin, LineWelcome, LinePrivMsgOther}

\* the most lines, empty ones included, batched in one payload of the stream
MaxBatch == 2

\* the most artifacts recorded on the stream
MaxArtifacts == 2

RECURSIVE BatchSeqs(_)
BatchSeqs(n) ==
    IF n = 0 THEN {<<>>}
    ELSE BatchSeqs(n - 1) \cup
         {ls \o <<l>> : ls \in {x \in BatchSeqs(n - 1) : Len(x) = n - 1}, l \in SocketLines}

\* the adapter after onWebSocketMessage(ws, {data}) whose calls are those of
\* effect
HandlePayload(data, effect) ==
    /\ posted' = posted \o effect.posted
    /\ recorded' = recorded \o effect.recorded
    /\ warned' = warned \o effect.warned
    /\ input' = <<data>>
    /\ UNCHANGED <<channel, calls, output, cssInjected, document, pending>>

OnTextPayload ==
    \E ls \in BatchSeqs(MaxBatch) :
        /\ Len(recorded) + Len(FilterNonEmpty(ls)) <= MaxArtifacts
        /\ \E effect \in {WebSocketMessageEffect(Join(ls, CRLF), channel)} :
               HandlePayload(Join(ls, CRLF), effect)

OnBinaryPayload ==
    /\ Len(recorded) < MaxArtifacts
    /\ \E effect \in {WebSocketMessageEffect(BinaryData, channel)} :
           HandlePayload(BinaryData, effect)

StreamNext == OnTextPayload \/ OnBinaryPayload

StreamSpec == Init /\ [][StreamNext]_vars

\* the line is a PRIVMSG whose tags carry an id
IsChatLine(line) ==
    /\ parseIrcMessageToJson(line).command = V_PRIVMSG
    /\ ~Falsy(Get(parseIrcMessageToJson(line).tags, T_id))

RECURSIVE ChatLines(_)
ChatLines(lines) ==
    IF lines = <<>> THEN <<>>
    ELSE IF IsChatLine(Head(lines)) THEN <<Head(lines)>> \o ChatLines(Tail(lines))
    ELSE ChatLines(Tail(lines))

\* the artifacts are one per line, in the order of the lines
OnePerLine(lines, artifacts) ==
    /\ Len(artifacts) = Len(lines)
    /\ \A i \in 1..Len(lines) :
           /\ artifacts[i].data = lines[i]
           /\ artifacts[i].status \in {"HANDLED", "IGNORED", "UNHANDLED"}
           /\ artifacts[i].status = "HANDLED" <=> IsChatLine(lines[i])

\* the messages are one per chat line, in the order of the lines
OnePerChatLine(chatLines, messages) ==
    /\ Len(messages) = Len(chatLines)
    /\ \A i \in 1..Len(chatLines) :
           messages[i].id = Get(parseIrcMessageToJson(chatLines[i]).tags, T_id)

\* what one payload may add to recorded and posted
PayloadHandled(data, artifacts, messages) ==
    IF data = BinaryData
    THEN Len(artifacts) = 1 /\ messages = <<>>
    ELSE /\ OnePerLine(FilterNonEmpty(Split(data, CRLF)), artifacts)
         /\ OnePerChatLine(ChatLines(FilterNonEmpty(Split(data, CRLF))), messages)

\* C22: every step of the adapter records one artifact for each non-empty
\* line of the payload, in payload order, and posts one message for each
\* PRIVMSG line with an id, in line order, and nothing else; a binary payload
\* records one artifact and posts nothing
C22_OneArtifactPerLine ==
    [][/\ Len(recorded') >= Len(recorded)
       /\ Len(posted') >= Len(posted)
       /\ SubSeq(recorded', 1, Len(recorded)) = recorded
       /\ SubSeq(posted', 1, Len(posted)) = posted
       /\ PayloadHandled(input'[1],
                         SubSeq(recorded', Len(recorded) + 1, Len(recorded')),
                         SubSeq(posted', Len(posted) + 1, Len(posted')))]_vars

\* a payload of two chat lines has been handled: two messages in line order,
\* two artifacts
C22_Witness ==
    /\ input = <<Join(<<LinePrivMsg, LinePrivMsgOther>>, CRLF)>>
    /\ Len(recorded) = 2
    /\ Len(posted) = 2
    /\ posted[1].id = <<"a", "1">>
    /\ posted[2].id = <<"b", "7">>


(***************************************************************************)
(* Twitch.updateChannelFromParams and the channel held by the adapter      *)
(***************************************************************************)
\* updateChannelFromParams that takes the first element as the channel name
\* whether or not it starts with '#'
updateChannelFromParams_NoPrefixCheck(params, chan) ==
    IF params = JsNull \/ params.e = <<>> THEN [channel |-> chan, logged |-> <<>>]
    ELSE IF params.e[1] = chan THEN [channel |-> chan, logged |-> <<>>]
    ELSE [channel |-> params.e[1],
          logged |-> <<Call("log", <<"Channel changed", chan, params.e[1]>>)>>]

\* updateChannelFromParams(params) with this.channel = chan: the channel after
\* the call and the calls of this.log
updateChannelFromParams(params, chan) ==
    IF params = JsNull \/ params.e = <<>> THEN [channel |-> chan, logged |-> <<>>]
    ELSE IF ~StartsWith(params.e[1], <<"#">>) THEN [channel |-> chan, logged |-> <<>>]
    ELSE IF Tail(params.e[1]) = chan THEN [channel |-> chan, logged |-> <<>>]
    ELSE [channel |-> Tail(params.e[1]),
          logged |-> <<Call("log", <<"Channel changed", chan, Tail(params.e[1])>>)>>]

V_IRC_SEND == <<"I", "R", "C", "_", "S", "E", "N", "D">>

\* onWebSocketSend(ws, message): the artifact it records
onWebSocketSend(message) ==
    IF message = BinaryData THEN <<>>
    ELSE IF Falsy(parseIrcMessageToJson(message).command)
    THEN <<Artifact("IGNORED", message, V_IRC_SEND)>>
    ELSE <<Artifact("IGNORED", message, parseIrcMessageToJson(message).command)>>

\* the most calls of the adapter in one run
MaxChannelCalls == 3

\* JOIN #nc
SendJoin == <<"J", "O", "I", "N", " ", "#", "n", "c">>

ChannelParams ==
    {JsNull, JsArray(<<>>), JsArray(<<<<"#", "n", "c">>>>), JsArray(<<<<"#", "s", "c">>>>), JsArray(<<<<"n", "c">>>>),
     JsArray(<<<<"#", "o", "t">>, <<"x">>>>)}

ChannelPayloads == {LinePrivMsg, Join(<<LineJoin, LineUserState>>, CRLF), BinaryData}

ChannelSends == {SendJoin, BinaryData}

UpdateChannel(params, outcome) ==
    /\ channel' = outcome.channel
    /\ calls' = calls \o outcome.logged
    /\ input' = Append(input, [op |-> "updateChannelFromParams", arg |-> params])
    /\ UNCHANGED <<posted, recorded, warned, output, cssInjected, document, pending>>

UpdateChannelFromParams ==
    /\ Len(input) < MaxChannelCalls
    /\ \E params \in ChannelParams :
           \E outcome \in {updateChannelFromParams(params, channel)} :
               UpdateChannel(params, outcome)

ChannelMessage(data, effect) ==
    /\ posted' = posted \o effect.posted
    /\ recorded' = recorded \o effect.recorded
    /\ warned' = warned \o effect.warned
    /\ input' = Append(input, [op |-> "onWebSocketMessage", arg |-> data])
    /\ UNCHANGED <<channel, calls, output, cssInjected, document, pending>>

OnChannelMessage ==
    /\ Len(input) < MaxChannelCalls
    /\ \E data \in ChannelPayloads :
           \E effect \in {WebSocketMessageEffect(data, channel)} : ChannelMessage(data, effect)

OnChannelSend ==
    /\ Len(input) < MaxChannelCalls
    /\ \E message \in ChannelSends :
           /\ recorded' = recorded \o onWebSocketSend(message)
           /\ input' = Append(input, [op |-> "onWebSocketSend", arg |-> message])
           /\ UNCHANGED <<channel, posted, warned, calls, output, cssInjected, document, pending>>

ChannelNext == UpdateChannelFromParams \/ OnChannelMessage \/ OnChannelSend

ChannelSpec == Init /\ [][ChannelNext]_vars

\* the params name a channel other than chan: a first element '#<name>' with
\* <name> different from chan
NamesOtherChannel(params, chan) ==
    /\ params # JsNull
    /\ params.e # <<>>
    /\ Head(params.e[1]) = "#"
    /\ Tail(params.e[1]) # chan

\* what the call just made (the last of the history) may do to channel and to
\* the log
ChannelStep(call, before, after, logged) ==
    IF call.op = "updateChannelFromParams" /\ NamesOtherChannel(call.arg, before)
    THEN /\ after = Tail(call.arg.e[1])
         /\ Len(logged) = 1
         /\ logged[1].fn = "log"
    ELSE after = before /\ logged = <<>>

S_External == <<"E", "x", "t", "e", "r", "n", "a", "l">>

\* the id made of Date.now() and Math.random() for a message without id
GeneratedId == <<"c", "h", "u", "c", "k", "-">>

StyleElement == [tagName |-> "style", className |-> ".chuck-external"]

\* a || b
OrElse(a, b) == IF Truthy(a) THEN a ELSE b

\* the element built by injectMessage for the message
MessageElement(message) ==
    [tagName |-> "yt-live-chat-text-message-renderer",
     className |-> "style-scope yt-live-chat-item-list-renderer chuck-external",
     id |-> OrElse(Prop(message, "id"), JsString(GeneratedId)),
     username |-> OrElse(Prop(message, "username"), JsString(S_External)),
     text |-> OrElse(Prop(message, "message"), JsString(<<>>))]

\* _injectCSS() without the test of the flag
injectCSS_NoFlag(injected, doc) ==
    [cssInjected |-> TRUE, document |-> [doc EXCEPT !.head = Append(@, StyleElement)]]

\* _injectCSS(): the flag and the page after the call
injectCSS(injected, doc) ==
    IF injected THEN [cssInjected |-> injected, document |-> doc]
    ELSE [cssInjected |-> TRUE,
          document |-> [doc EXCEPT !.head = Append(@, StyleElement)]]

\* what injectMessage does once the style is in place; doc.items is <<>> when
\* the page has no chat container and holds the children of the container
\* otherwise
AfterCSS(message, styled) ==
    IF styled.document.items = <<>>
    THEN styled @@ [warned |-> <<"Could not find chat container for message injection">>,
                    logged |-> <<>>]
    ELSE [cssInjected |-> styled.cssInjected,
          document |-> [styled.document EXCEPT
                           !.items = <<Append(@[1], MessageElement(message))>>],
          warned |-> <<>>,
          logged |-> <<Call("log", <<"Injected external message:">>)>>]

\* injectMessage(message) with this._cssInjected = injected on the page doc
injectMessage(message, injected, doc) ==
    IF ~Truthy(message)
    THEN [cssInjected |-> injected, document |-> doc,
          warned |-> <<"injectMessage called with null/undefined message">>,
          logged |-> <<>>]
    ELSE AfterCSS(message, injectCSS(injected, doc))

\* the most calls of injectMessage in one run
MaxInjects == 3

InjectedMessages ==
    {JsNull, JsUndefined, JsObject(NoFields),
     JsObject([id |-> JsString(<<"m", "1">>), username |-> JsString(<<"@", "T">>), message |-> JsString(<<"H", "i">>)]),
     JsObject([username |-> JsString(<<"T">>), message |-> JsString(<<"Y", "o">>)])}

Injected(message, after) ==
    /\ cssInjected' = after.cssInjected
    /\ document' = after.document
    /\ warned' = warned \o after.warned
    /\ calls' = calls \o after.logged
    /\ input' = Append(input, message)
    /\ UNCHANGED <<channel, posted, recorded, output, pending>>

InjectMessage ==
    /\ Len(input) < MaxInjects
    /\ \E message \in InjectedMessages :
           \E after \in {injectMessage(message, cssInjected, document)} :
               Injected(message, after)

\* the page renders the chat container
ContainerMounts ==
    /\ document.items = <<>>
    /\ document' = [document EXCEPT !.items = <<<<>>>>]
    /\ UNCHANGED <<channel, posted, recorded, warned, calls, input, output, cssInjected, pending>>

InjectNext == InjectMessage \/ ContainerMounts

InjectSpec == Init /\ [][InjectNext]_vars

\* the children of the chat container, none when there is no container
ItemsOf(doc) == IF doc.items = <<>> THEN <<>> ELSE doc.items[1]

\* what a call of injectMessage may do to the container and to the warnings
InjectStep(message, hadContainer, before, after, warnings) ==
    IF Truthy(message) /\ hadContainer
    THEN /\ after = Append(before, MessageElement(message))
         /\ warnings = <<>>
    ELSE /\ after = before
         /\ Len(warnings) = 1

\* C25: the head holds at most one style element, appended by the first call
\* with a message; a call appends exactly one element to the container when
\* it has a message and the container exists, and otherwise appends none and
\* warns once
C25_StyleOnceElementPerCall ==
    [][/\ Len(document'.head) <= 1
       /\ Len(document'.head) = 1 <=> \E i \in 1..Len(input') : Truthy(input'[i])
       /\ cssInjected' <=> Len(document'.head) = 1
       /\ Len(input') = Len(input) + 1 =>
              InjectStep(input'[Len(input')], document.items # <<>>,
                         ItemsOf(document), ItemsOf(document'),
                         SubSeq(warned', Len(warned) + 1, Len(warned')))
       /\ Len(input') = Len(input) => ItemsOf(document') = ItemsOf(document)]_vars

\* three calls with a message, the first without a container: one style
\* element, two message elements, one warning
C25_Witness ==
    /\ Len(input) = 3
    /\ \A i \in 1..3 : Truthy(input[i])
    /\ Len(document.head) = 1
    /\ Len(ItemsOf(document)) = 2
    /\ Len(warned) = 1


(***************************************************************************)
(* Facebook.onFetchResponse and Facebook.onXhrReadyStateChange             *)
(***************************************************************************)
S_graphql == <<"g", "r", "a", "p", "h", "q", "l">>

S_api_graphql == <<"/", "a", "p", "i", "/", "g", "r", "a", "p", "h", "q", "l">>

S_video == <<"v", "i", "d", "e", "o", "-">>

S_Media_segment == <<"M", "e", "d", "i", "a", " ", "s", "e", "g", "m", "e", "n", "t">>

S_Not_monitored == <<"N", "o", "t", " ", "m", "o", "n", "i", "t", "o", "r", "e", "d">>

S_graphql_xhr == <<"g", "r", "a", "p", "h", "q", "l", "_", "x", "h", "r">>

\* a URL of the page: the parts of new URL(...) the handlers read
Url(hostname, pathname) == [hostname |-> hostname, pathname |-> pathname]

IsGraphQL(url) == Includes(url.pathname, S_api_graphql) \/ Includes(url.pathname, S_graphql)

IsMediaSegment(url) ==
    \/ Includes(url.hostname, S_video)
    \/ Includes(url.pathname, <<".", "m", "4", "v">>)
    \/ Includes(url.pathname, <<".", "m", "4", "a">>)
    \/ Includes(url.pathname, <<".", "m", "p", "d">>)

\* the inner try block once the body has been read: parsed is <<>> when the
\* read threw and holds the value otherwise; json stays null and handled
\* false when anything in the block throws before they are assigned
GraphQLOutcome(parsed, answer) ==
    IF parsed = <<>> THEN [json |-> JsNull, handled |-> FALSE, posted |-> <<>>]
    ELSE IF ~Truthy(parsed[1]) THEN [json |-> parsed[1], handled |-> FALSE, posted |-> <<>>]
    ELSE IF answer.raised THEN [json |-> parsed[1], handled |-> FALSE, posted |-> <<>>]
    ELSE [json |-> parsed[1], handled |-> answer.handled, posted |-> answer.posted]

\* the record call after the inner try block
GraphQLRecorded(outcome, type) ==
    [posted |-> outcome.posted,
     recorded |-> <<Artifact(IF outcome.handled THEN "HANDLED" ELSE "UNHANDLED",
                             outcome.json, type)>>]

\* the answer of handleGraphQLResponse for a body that was read, none for a
\* body that was not
AnswerTo(parsed, chan) ==
    IF parsed = <<>> THEN [posted |-> <<>>, handled |-> FALSE, raised |-> FALSE]
    ELSE handleGraphQLResponse(parsed[1], chan)

\* Facebook.onFetchResponse(response): response.json() parses the text of the
\* body
Facebook_onFetchResponse(response, chan) ==
    IF IsGraphQL(response.url)
    THEN GraphQLRecorded(
             GraphQLOutcome(JsonParse(response.body),
                            AnswerTo(JsonParse(response.body), chan)),
             S_graphql)
    ELSE IF IsMediaSegment(response.url)
    THEN [posted |-> <<>>, recorded |-> <<Artifact("IGNORED", JsNull, S_Media_segment)>>]
    ELSE [posted |-> <<>>, recorded |-> <<Artifact("IGNORED", JsNull, S_Not_monitored)>>]

\* xhr.response as the inner try block reads it: a string is parsed, an
\* object (null included) is taken as it is, anything else leaves json null
XhrJson(response) ==
    IF response.t = "string" THEN JsonParse(response)
    ELSE IF response.t \in {"object", "array", "null"} THEN <<response>>
    ELSE <<JsNull>>

\* Facebook.onXhrReadyStateChange(xhr, event)
Facebook_onXhrReadyStateChange(xhr, chan) ==
    IF ~xhr.done THEN [posted |-> <<>>, recorded |-> <<>>]
    ELSE IF IsGraphQL(xhr.url)
    THEN GraphQLRecorded(
             GraphQLOutcome(XhrJson(xhr.body), AnswerTo(XhrJson(xhr.body), chan)),
             S_graphql_xhr)
    ELSE [posted |-> <<>>, recorded |-> <<Artifact("IGNORED", JsNull, S_Not_monitored)>>]

\* {"data":{"comment_create":{"comment":{"id":"c","body":{"text":"h"}}}}}
BodyComment ==
    JsString(<<"{", "\"", "d", "a", "t", "a", "\"", ":", "{", "\"", "c", "o", "m", "m", "e", "n", "t",
        "_", "c", "r", "e", "a", "t", "e", "\"", ":", "{", "\"", "c", "o", "m", "m", "e", "n",
        "t", "\"", ":", "{", "\"", "i", "d", "\"", ":", "\"", "c", "\"", ",", "\"", "b", "o",
        "d", "y", "\"", ":", "{", "\"", "t", "e", "x", "t", "\"", ":", "\"", "h", "\"", "}", "}",
        "}", "}", "}">>)

\* {"data":{"comment_create":{"comment":{"id":"c","preferred_body":{"text":"h"}}}}}
BodyPreferred ==
    JsString(<<"{", "\"", "d", "a", "t", "a", "\"", ":", "{", "\"", "c", "o", "m", "m", "e", "n", "t",
        "_", "c", "r", "e", "a", "t", "e", "\"", ":", "{", "\"", "c", "o", "m", "m", "e", "n",
        "t", "\"", ":", "{", "\"", "i", "d", "\"", ":", "\"", "c", "\"", ",", "\"", "p", "r",
        "e", "f", "e", "r", "r", "e", "d", "_", "b", "o", "d", "y", "\"", ":", "{", "\"", "t",
        "e", "x", "t", "\"", ":", "\"", "h", "\"", "}", "}", "}", "}", "}">>)

\* {"data":{"comment_create":{"comment":{"id":"c","body":{"text":""}}}}}
BodyEmptyText ==
    JsString(<<"{", "\"", "d", "a", "t", "a", "\"", ":", "{", "\"", "c", "o", "m", "m", "e", "n", "t",
        "_", "c", "r", "e", "a", "t", "e", "\"", ":", "{", "\"", "c", "o", "m", "m", "e", "n",
        "t", "\"", ":", "{", "\"", "i", "d", "\"", ":", "\"", "c", "\"", ",", "\"", "b", "o",
        "d", "y", "\"", ":", "{", "\"", "t", "e", "x", "t", "\"", ":", "\"", "\"", "}", "}", "}",
        "}", "}">>)

\* {"data":{"comment_create":{"comment":{"body":{"text":"h"}}}}}
BodyNoId ==
    JsString(<<"{", "\"", "d", "a", "t", "a", "\"", ":", "{", "\"", "c", "o", "m", "m", "e", "n", "t",
        "_", "c", "r", "e", "a", "t", "e", "\"", ":", "{", "\"", "c", "o", "m", "m", "e", "n",
        "t", "\"", ":", "{", "\"", "b", "o", "d", "y", "\"", ":", "{", "\"", "t", "e", "x", "t",
        "\"", ":", "\"", "h", "\"", "}", "}", "}", "}", "}">>)

\* {"data":{"comment_create":{"comment":null}}}
BodyNullComment ==
    JsString(<<"{", "\"", "d", "a", "t", "a", "\"", ":", "{", "\"", "c", "o", "m", "m", "e", "n", "t",
        "_", "c", "r", "e", "a", "t", "e", "\"", ":", "{", "\"", "c", "o", "m", "m", "e", "n",
        "t", "\"", ":", "n", "u", "l", "l", "}", "}", "}">>)

\* {"data":{"viewer":{}}}
BodyOtherData ==
    JsString(<<"{", "\"", "d", "a", "t", "a", "\"", ":", "{", "\"", "v", "i", "e", "w", "e", "r", "\"",
        ":", "{", "}", "}", "}">>)

\* {"errors":[]}
BodyNoData ==
    JsString(<<"{", "\"", "e", "r", "r", "o", "r", "s", "\"", ":", "[", "]", "}">>)

\* null
BodyNull ==
    JsString(<<"n", "u", "l", "l">>)

\* <html>
BodyHtml ==
    JsString(<<"<", "h", "t", "m", "l", ">">>)

\* {"data":{"comment_create":{"comment":{"id":"c","body":{"text":"h"},"identity_badges_web":[null]}}}}
BodyNullBadge ==
    JsString(<<"{", "\"", "d", "a", "t", "a", "\"", ":", "{", "\"", "c", "o", "m", "m", "e", "n", "t",
        "_", "c", "r", "e", "a", "t", "e", "\"", ":", "{", "\"", "c", "o", "m", "m", "e", "n",
        "t", "\"", ":", "{", "\"", "i", "d", "\"", ":", "\"", "c", "\"", ",", "\"", "b", "o",
        "d", "y", "\"", ":", "{", "\"", "t", "e", "x", "t", "\"", ":", "\"", "h", "\"", "}", ",",
        "\"", "i", "d", "e", "n", "t", "i", "t", "y", "_", "b", "a", "d", "g", "e", "s", "_",
        "w", "e", "b", "\"", ":", "[", "n", "u", "l", "l", "]", "}", "}", "}", "}">>)

\* the most responses in one run
MaxResponses == 2

GraphQLUrl == Url(<<"f", "b">>, <<"/", "a", "p", "i", "/", "g", "r", "a", "p", "h", "q", "l", "/">>)

ResponseUrls ==
    {GraphQLUrl, Url(<<"f", "b">>, <<"/", "g", "r", "a", "p", "h", "q", "l">>), Url(<<"v", "i", "d", "e", "o", "-", "1">>, <<"/", "s">>), Url(<<"f", "b">>, <<"/", "a", ".", "m", "4", "v">>),
     Url(<<"f", "b">>, <<"/", "s">>)}

ResponseBodies ==
    {BodyComment, BodyPreferred, BodyEmptyText, BodyNoId, BodyNullComment,
     BodyOtherData, BodyNoData, BodyNull, BodyHtml, BodyNullBadge}

\* the responses of the run: every body at the GraphQL endpoint, one body at
\* the other addresses
FetchResponses ==
    {[url |-> GraphQLUrl, body |-> body] : body \in ResponseBodies}
        \cup {[url |-> url, body |-> BodyComment] : url \in ResponseUrls}

\* the requests of the run: as the fetch responses, and at the GraphQL
\* endpoint a response that is an object already, one that is null, and a
\* request that is not done
XhrRequests ==
    {[url |-> r.url, body |-> r.body, done |-> TRUE] : r \in FetchResponses}
        \cup {[url |-> GraphQLUrl, body |-> FacebookResponse(<<"c">>), done |-> TRUE],
              [url |-> GraphQLUrl, body |-> JsNull, done |-> TRUE],
              [url |-> GraphQLUrl, body |-> BodyComment, done |-> FALSE]}

ResponseHandled(handler, response, effect) ==
    /\ posted' = posted \o effect.posted
    /\ recorded' = recorded \o effect.recorded
    /\ input' = Append(input, [handler |-> handler, response |-> response])
    /\ UNCHANGED <<channel, warned, calls, output, cssInjected, document, pending>>

OnFacebookFetchResponse ==
    /\ Len(input) < MaxResponses
    /\ \E response \in FetchResponses :
           \E effect \in {Facebook_onFetchResponse(response, channel)} :
               ResponseHandled("fetch", response, effect)

OnFacebookXhrReadyStateChange ==
    /\ Len(input) < MaxResponses
    /\ \E xhr \in XhrRequests :
           \E effect \in {Facebook_onXhrReadyStateChange(xhr, channel)} :
               ResponseHandled("xhr", xhr, effect)

GraphQLNext == OnFacebookFetchResponse \/ OnFacebookXhrReadyStateChange

GraphQLSpec == Init /\ [][GraphQLNext]_vars

\* the value the handler reads from the response, in a sequence; none when
\* the body does not parse
JsonOf(call) ==
    IF call.handler = "fetch" THEN JsonParse(call.response.body)
    ELSE XhrJson(call.response.body)

\* json holds data.comment_create.comment with an id and a non-empty body text
HoldsComment(json) ==
    /\ Truthy(OptProp(OptProp(OptProp(json, "data"), "comment_create"), "comment"))
    /\ Truthy(Prop(Prop(Prop(Prop(json, "data"), "comment_create"), "comment"), "id"))
    /\ \/ Truthy(OptProp(Prop(Prop(Prop(Prop(json, "data"), "comment_create"), "comment"),
                              "preferred_body"), "text"))
       \/ Truthy(OptProp(Prop(Prop(Prop(Prop(json, "data"), "comment_create"), "comment"),
                              "body"), "text"))

\* the response of the call is a completed response of the GraphQL endpoint
IsGraphQLCall(call) ==
    /\ IsGraphQL(call.response.url)
    /\ call.handler = "xhr" => call.response.done

\* what the handling of one GraphQL response adds to posted and recorded
GraphQLStep(parsed, messages, artifacts) ==
    /\ Len(artifacts) = 1
    /\ Len(messages) <= 1
    /\ artifacts[1].status = (IF Len(messages) = 1 THEN "HANDLED" ELSE "UNHANDLED")
    /\ Len(messages) = 1 <=> (parsed # <<>> /\ HoldsComment(parsed[1]))

\* C27: the handling of a GraphQL response records one artifact, HANDLED iff a
\* message was delivered, and a message is delivered iff the response holds
\* data.comment_create.comment with an id and a non-empty body text
C27_HandledIffComment ==
    [][IsGraphQLCall(input'[Len(input')]) =>
           GraphQLStep(JsonOf(input'[Len(input')]),
                       SubSeq(posted', Len(posted) + 1, Len(posted')),
                       SubSeq(recorded', Len(recorded) + 1, Len(recorded')))]_vars


(***************************************************************************)
(* YouTube.onFetchResponse and YouTube.onDocumentReady as interleaved      *)
(* invocations.  pending holds what the event loop has yet to run: an      *)
(* invocation of onFetchResponse awaiting response.json() ("body"), the    *)
(* invocation of onDocumentReady awaiting the channel lookup ("lookup"),   *)
(* and the callback of receiveChatMessages queued as a microtask           *)
(* ("deliver").  Microtasks run before anything else.  calls holds the     *)
(* calls of sendChatMessages, sendRemoveMessages and log in order, the     *)
(* arguments as records: the messages, [id] and [text].                    *)
(***************************************************************************)
S_get_live_chat == <<"/", "g", "e", "t", "_", "l", "i", "v", "e", "_", "c", "h", "a", "t">>

S_channel == <<"/", "c", "h", "a", "n", "n", "e", "l", "/">>

\* the removal id derived under the namespace of another adapter
RemovalId_OtherNamespace(action) ==
    uuidv5(Prop(Prop(action, "removeChatItemAction"), "targetItemId"), TwitchNamespace)

\* uuidv5(action.removeChatItemAction.targetItemId, this.namespace)
RemovalId(action) ==
    uuidv5(Prop(Prop(action, "removeChatItemAction"), "targetItemId"), YouTubeNamespace)

\* the state of actions.map(...) before the first action
NothingMapped == [sent |-> <<>>, toAdd |-> <<>>, unhandled |-> 0, threw |-> FALSE]

\* the callback of actions.map for one action: the calls made so far, the
\* items kept for receiveChatMessages, the count of unknown actions, and
\* whether reading the action threw
MapAction(action, acc) ==
    IF acc.threw THEN acc
    ELSE IF IsNullish(action) THEN [acc EXCEPT !.threw = TRUE]
    ELSE IF Truthy(Prop(action, "addChatItemAction"))
    THEN [acc EXCEPT !.toAdd = Append(@, Prop(action, "addChatItemAction"))]
    ELSE IF Truthy(Prop(action, "addLiveChatMembershipItemAction"))
    THEN [acc EXCEPT !.toAdd = Append(@, Prop(action, "addLiveChatMembershipItemAction"))]
    ELSE IF Truthy(Prop(action, "removeChatItemAction"))
    THEN [acc EXCEPT !.sent = Append(@, Call("sendRemoveMessages", <<[id |-> RemovalId(action)]>>))]
    ELSE IF \/ Truthy(Prop(action, "addLiveChatTickerItemAction"))
            \/ Truthy(Prop(action, "updateLiveChatPollAction"))
    THEN acc
    ELSE [acc EXCEPT !.sent = Append(@, Call("log", <<[text |-> "Unknown get_live_chat action."]>>)),
                     !.unhandled = @ + 1]

RECURSIVE MapActions(_, _)
MapActions(actions, acc) ==
    IF actions = <<>> THEN acc
    ELSE MapActions(Tail(actions), MapAction(Head(actions), acc))

\* the catch block of onFetchResponse
FetchFailed(url, sent) ==
    [calls |-> sent, recorded |-> <<Artifact("ERROR", url, "fetch_response")>>,
     warned |-> <<"Failed to process live chat response:">>, queued |-> <<>>]

\* receiveChatMessages(messagesToAdd): the callback queued once the promise
\* of prepareChatMessages has resolved; nothing when it rejects
QueuedDelivery(n, prepared) ==
    IF prepared.kind = "resolved"
    THEN <<[kind |-> "deliver", n |-> n, messages |-> prepared.messages]>>
    ELSE <<>>

\* onFetchResponse after actions.map(...).filter(Boolean)
AfterMap(n, url, mapped, chan) ==
    IF mapped.threw THEN FetchFailed(url, mapped.sent)
    ELSE [calls |-> mapped.sent,
          recorded |-> <<Artifact("HANDLED", url, "fetch")>>,
          warned |-> <<>>,
          queued |-> IF mapped.toAdd = <<>> THEN <<>>
                     ELSE QueuedDelivery(n, prepareChatMessages(JsArray(mapped.toAdd), chan))]

\* json?.continuationContents?.liveChatContinuation?.actions
LiveChatActions(json) ==
    OptProp(OptProp(OptProp(json, "continuationContents"), "liveChatContinuation"), "actions")

\* onFetchResponse once response.json() has resolved with json
AfterJson(n, url, actions, chan) ==
    IF ~Truthy(actions)
    THEN [calls |-> <<>>, recorded |-> <<Artifact("IGNORED", url, "No actions in response")>>,
          warned |-> <<>>, queued |-> <<>>]
    ELSE IF actions.t # "array" THEN FetchFailed(url, <<>>)
    ELSE AfterMap(n, url, MapActions(actions.e, NothingMapped), chan)

\* onFetchResponse once response.json() has settled
AfterRead(n, response, chan) ==
    IF response.body.kind = "rejects" THEN FetchFailed(response.url, <<>>)
    ELSE AfterJson(n, response.url, LiveChatActions(response.body.json), chan)

\* an event loop that resumes the invocations in the order of their calls
CanResume_InOrder(tasks, i) == \A j \in 1..(i - 1) : tasks[j].kind # "body"

\* each invocation awaits its own response.json(): it can be resumed whatever
\* the other invocations wait for
CanResume(tasks, i) == TRUE

\* [^\/] among the characters of the model
NonSlash == {Ascii[i] : i \in 1..Len(Ascii)} \ {"/"}

\* the text captured by /(?:\/channel\/|@)([^\/]+)/ at the start of t, if any
CapturedAt(t) ==
    IF StartsWith(t, S_channel) /\ LeadingCount(SliceFrom(t, Len(S_channel) + 1), NonSlash) > 0
    THEN <<SubSeq(t, Len(S_channel) + 1,
                  Len(S_channel) + LeadingCount(SliceFrom(t, Len(S_channel) + 1), NonSlash))>>
    ELSE IF StartsWith(t, <<"@">>) /\ LeadingCount(Tail(t), NonSlash) > 0
    THEN <<SubSeq(t, 2, 1 + LeadingCount(Tail(t), NonSlash))>>
    ELSE <<>>

\* author_url.match(/(?:\/channel\/|@)([^\/]+)/): the capture of the leftmost
\* match, in a sequence; empty when there is no match
RECURSIVE ChannelMatch(_)
ChannelMatch(t) ==
    IF t = <<>> THEN <<>>
    ELSE IF CapturedAt(t) # <<>> THEN CapturedAt(t)
    ELSE ChannelMatch(Tail(t))

\* onDocumentReady after the await of the lookup
AfterLookup(authorUrl, chan) ==
    IF ChannelMatch(authorUrl) # <<>>
    THEN [channel |-> JsString(ChannelMatch(authorUrl)[1]),
          logged |-> <<Call("log", <<[text |-> "Received channel info."]>>)>>]
    ELSE [channel |-> chan,
          logged |-> <<Call("log", <<[text |-> "Could not find a channel ID in the URL. URL:"]>>),
                       Call("log", <<[text |-> "Received channel info."]>>)>>]


\* the most responses handed to onFetchResponse in one run
MaxFetches == 2

\* {addChatItemAction: {item: {liveChatTextMessageRenderer: {id: n, ...}}}}
AddAction(n) == JsObject([addChatItemAction |-> YouTubeActions(n).e[1]])

\* {removeChatItemAction: {targetItemId: n}}
RemoveAction(n) ==
    JsObject([removeChatItemAction |-> JsObject([targetItemId |-> JsString(n)])])

LiveChatJson(actions) ==
    JsObject([continuationContents |->
        JsObject([liveChatContinuation |-> JsObject([actions |-> JsArray(actions)])])])

Resolves(json) == [kind |-> "resolves", json |-> json]

LiveChatUrl == <<"/", "g", "e", "t", "_", "l", "i", "v", "e", "_", "c", "h", "a", "t", "?", "c", "=", "1">>

\* the address of the response whose body is never read to its end
StalledUrl == <<"/", "g", "e", "t", "_", "l", "i", "v", "e", "_", "c", "h", "a", "t", "?", "c", "=", "9">>

\* the native id of the item of the response whose body is never read to
\* its end
StalledId == <<"z", "9">>

StalledResponse == [url |-> StalledUrl, body |-> [kind |-> "never"]]

AddThenRemove == LiveChatJson(<<AddAction(<<"a", "1">>), RemoveAction(<<"a", "1">>)>>)

\* the responses: an added item; an item added and removed in one list; a
\* removal; a list with an unknown action and a ticker; a null action after
\* a removal; a body without actions; a body that is no JSON; a body that
\* never arrives; a response of another endpoint
LiveChatResponses ==
    {[url |-> LiveChatUrl, body |-> Resolves(LiveChatJson(<<AddAction(n)>>))] : n \in NativeIds}
    \cup {[url |-> LiveChatUrl, body |-> Resolves(AddThenRemove)],
          [url |-> LiveChatUrl, body |-> Resolves(LiveChatJson(<<RemoveAction(<<"b", "2">>)>>))],
          [url |-> LiveChatUrl,
           body |-> Resolves(LiveChatJson(<<JsObject([markChatItemAsDeletedAction |-> JsObject(NoFields)]),
                                            JsObject([addLiveChatTickerItemAction |-> JsObject(NoFields)])>>))],
          [url |-> LiveChatUrl,
           body |-> Resolves(LiveChatJson(<<RemoveAction(<<"a", "1">>), JsNull>>))],
          [url |-> LiveChatUrl, body |-> Resolves(JsObject(NoFields))],
          [url |-> LiveChatUrl, body |-> [kind |-> "rejects"]],
          StalledResponse,
          [url |-> <<"/", "l", "o", "g", "_", "e", "v", "e", "n", "t">>, body |-> Resolves(JsObject(NoFields))]}

\* the pages: whether a video id is found, and what the lookup of the author
\* gives: an address with a channel id, one with a handle, one with neither, a
\* failure, or nothing ever
Pages ==
    {[video |-> FALSE, lookup |-> "never", author_url |-> <<>>],
     [video |-> TRUE, lookup |-> "never", author_url |-> <<>>],
     [video |-> TRUE, lookup |-> "rejects", author_url |-> <<>>],
     [video |-> TRUE, lookup |-> "resolves", author_url |-> <<"h", "t", "t", "p", "s", ":", "/", "/", "y", ".", "t", "/", "c", "h", "a", "n", "n", "e", "l", "/", "U", "C", "1">>],
     [video |-> TRUE, lookup |-> "resolves", author_url |-> <<"h", "t", "t", "p", "s", ":", "/", "/", "y", ".", "t", "/", "@", "m", "e">>],
     [video |-> TRUE, lookup |-> "resolves", author_url |-> <<"h", "t", "t", "p", "s", ":", "/", "/", "y", ".", "t", "/", "c", "/", "m", "e">>]}

\* the adapter as its constructor leaves it: no channel yet
FetchInit ==
    /\ channel = JsNull
    /\ posted = <<>>
    /\ recorded = <<>>
    /\ warned = <<>>
    /\ calls = <<>>
    /\ input = <<>>
    /\ output = <<>>
    /\ cssInjected = FALSE
    /\ document = NoDocument
    /\ pending = <<>>

NoMicrotask == \A i \in 1..Len(pending) : pending[i].kind # "deliver"

Without(tasks, i) == SubSeq(tasks, 1, i - 1) \o SubSeq(tasks, i + 1, Len(tasks))

\* onFetchResponse(response) up to its first await
OnFetchResponse ==
    /\ NoMicrotask
    /\ Len(input) < MaxFetches
    /\ \E response \in LiveChatResponses :
           /\ input' = Append(input, response)
           /\ IF Includes(response.url, S_get_live_chat)
              THEN /\ pending' = Append(pending, [kind |-> "body", n |-> Len(input) + 1])
                   /\ recorded' = recorded
              ELSE /\ pending' = pending
                   /\ recorded' = Append(recorded,
                                         Artifact("IGNORED", response.url, "Not live chat endpoint"))
    /\ UNCHANGED <<channel, posted, warned, calls, output, cssInjected, document>>

Resumed(i, effect) ==
    /\ calls' = calls \o effect.calls
    /\ recorded' = recorded \o effect.recorded
    /\ warned' = warned \o effect.warned
    /\ pending' = Without(pending, i) \o effect.queued
    /\ UNCHANGED <<channel, posted, input, output, cssInjected, document>>

\* response.json() settles and the invocation runs to its end
BodySettles ==
    /\ NoMicrotask
    /\ \E i \in 1..Len(pending) :
           /\ pending[i].kind = "body"
           /\ input[pending[i].n].body.kind # "never"
           /\ CanResume(pending, i)
           /\ \E effect \in {AfterRead(pending[i].n, input[pending[i].n], channel)} :
                  Resumed(i, effect)

\* the callback of receiveChatMessages: this.sendChatMessages(data)
Deliver ==
    /\ ~NoMicrotask
    /\ \E i \in 1..Len(pending) :
           /\ pending[i].kind = "deliver"
           /\ \A j \in 1..(i - 1) : pending[j].kind # "deliver"
           /\ calls' = Append(calls, Call("sendChatMessages", pending[i].messages))
           /\ posted' = posted \o pending[i].messages
           /\ pending' = Without(pending, i)
    /\ UNCHANGED <<channel, recorded, warned, input, output, cssInjected, document>>

\* onDocumentReady(event) up to the await of the lookup; output keeps the
\* page once the handler has been called
OnDocumentReady ==
    /\ NoMicrotask
    /\ output = <<>>
    /\ \E page \in Pages :
           /\ output' = <<page>>
           /\ IF page.video
              THEN /\ pending' = Append(pending, [kind |-> "lookup"])
                   /\ calls' = Append(calls, Call("log", <<[text |-> "Video ID:"]>>))
              ELSE /\ pending' = pending
                   /\ calls' = Append(calls, Call("log", <<[text |-> "Cannot identify video ID."]>>))
    /\ UNCHANGED <<channel, posted, recorded, warned, input, cssInjected, document>>

LookedUp(i, after) ==
    /\ channel' = after.channel
    /\ calls' = calls \o after.logged
    /\ pending' = Without(pending, i)
    /\ UNCHANGED <<posted, recorded, warned, input, output, cssInjected, document>>

\* the lookup resolves and onDocumentReady runs on
LookupResolves ==
    /\ NoMicrotask
    /\ \E i \in 1..Len(pending) :
           /\ pending[i].kind = "lookup"
           /\ output[1].lookup = "resolves"
           /\ \E after \in {AfterLookup(output[1].author_url, channel)} : LookedUp(i, after)

\* the lookup fails: the promise of onDocumentReady rejects
LookupRejects ==
    /\ NoMicrotask
    /\ \E i \in 1..Len(pending) :
           /\ pending[i].kind = "lookup"
           /\ output[1].lookup = "rejects"
           /\ pending' = Without(pending, i)
    /\ UNCHANGED <<channel, posted, recorded, warned, calls, input, output, cssInjected, document>>

FetchNext ==
    \/ OnFetchResponse
    \/ BodySettles
    \/ Deliver
    \/ OnDocumentReady
    \/ LookupResolves
    \/ LookupRejects

FetchSpec == FetchInit /\ [][FetchNext]_vars

\* the responses handed over, their bodies and their deliveries, without the
\* events of the page
PayloadNext ==
    \/ OnFetchResponse
    \/ BodySettles
    \/ Deliver

PayloadSpec == FetchInit /\ [][PayloadNext]_vars


\* the invocations resumed by the step: the body tasks that are gone
ResumedBy(before, after) ==
    {before[i].n : i \in {j \in 1..Len(before) :
                              /\ before[j].kind = "body"
                              /\ \A k \in 1..Len(after) : after[k] # before[j]}}

\* the id stamped on the message prepared from a chat item of native id n
MessageIdOf(n) == receiveChatMessages(YouTubeActions(n), JsNull)[1].id

\* the native ids targeted by the removals of the list, up to the first
\* action that cannot be read
RECURSIVE RemovalTargets(_)
RemovalTargets(actions) ==
    IF actions = <<>> \/ IsNullish(Head(actions)) THEN <<>>
    ELSE IF Prop(Head(actions), "removeChatItemAction") # JsUndefined
    THEN <<Prop(Prop(Head(actions), "removeChatItemAction"), "targetItemId").s>>
             \o RemovalTargets(Tail(actions))
    ELSE RemovalTargets(Tail(actions))

\* the actions of the response, none when it has no list of actions
ActionsOf(response) ==
    IF response.body.kind = "resolves" /\ LiveChatActions(response.body.json).t = "array"
    THEN LiveChatActions(response.body.json).e
    ELSE <<>>

\* the removal notifications among the calls
Removals(made) == SelectSeq(made, LAMBDA call : call.fn = "sendRemoveMessages")

\* the removal notifications are those of the targets, each with the id of
\* the message of its target
RemovalsDesignate(targets, removals) ==
    /\ Len(removals) = Len(targets)
    /\ \A k \in 1..Len(targets) : removals[k].args = <<[id |-> MessageIdOf(targets[k])]>>

\* C21: the removal notification sent for a removal of target n carries the
\* id stamped on the message prepared from the chat item of native id n
C21_RemovalDesignatesDeliveredId ==
    [][\A n \in ResumedBy(pending, pending') :
           RemovalsDesignate(RemovalTargets(ActionsOf(input[n])),
                             Removals(SubSeq(calls', Len(calls) + 1, Len(calls'))))]_vars

\* a message and the removal of it have both gone out, under one id
C21_Witness ==
    \E j, k \in 1..Len(calls) :
        /\ calls[j].fn = "sendRemoveMessages"
        /\ calls[k].fn = "sendChatMessages"
        /\ Len(calls[k].args) = 1
        /\ calls[k].args[1].id = calls[j].args[1].id
        /\ calls[j].args[1].id = uuidv5(JsString(<<"a", "1">>), YouTubeNamespace)

\* the position of the first action of the list with the property, 0 if none
FirstAdd(actions, n) ==
    IF \E p \in 1..Len(actions) : actions[p] = AddAction(n)
    THEN CHOOSE p \in 1..Len(actions) :
             /\ actions[p] = AddAction(n)
             /\ \A q \in 1..(p - 1) : actions[q] # AddAction(n)
    ELSE 0

\* every removal of n in the responses handed over comes after an add of n
\* in the same list, and there is such a removal
AddedThenRemoved(responses, n) ==
    /\ \E i \in 1..Len(responses) :
           \E q \in 1..Len(ActionsOf(responses[i])) : ActionsOf(responses[i])[q] = RemoveAction(n)
    /\ \A i \in 1..Len(responses) :
           \A q \in 1..Len(ActionsOf(responses[i])) :
               ActionsOf(responses[i])[q] = RemoveAction(n) =>
                   /\ FirstAdd(ActionsOf(responses[i]), n) # 0
                   /\ FirstAdd(ActionsOf(responses[i]), n) < q

\* the call delivers the message of native id n
DeliversMessage(call, n) ==
    /\ call.fn = "sendChatMessages"
    /\ \E k \in 1..Len(call.args) : call.args[k].id = MessageIdOf(n)

\* C28: when the add of n precedes the removal of n in one list, the message
\* of n is delivered before the removal notification of n is sent
C28_DeliveredBeforeRemoved ==
    \A n \in NativeIds :
        AddedThenRemoved(input, n) =>
            \A j \in 1..Len(calls) :
                (calls[j].fn = "sendRemoveMessages" /\ calls[j].args = <<[id |-> MessageIdOf(n)]>>) =>
                    \E k \in 1..(j - 1) : DeliversMessage(calls[k], n)

\* C29: every delivered message carries a channel that is a string
C29_NoNullChannel ==
    \A k \in 1..Len(posted) : posted[k].channel.t = "string"


\* an invocation awaits a body that has settled: BodySettles can take a
\* step, and each of its steps changes pending
BodyResumable ==
    /\ NoMicrotask
    /\ \E i \in 1..Len(pending) :
           /\ pending[i].kind = "body"
           /\ input[pending[i].n].body.kind # "never"
           /\ CanResume(pending, i)

\* weak fairness of BodySettles, with BodyResumable for ENABLED <<BodySettles>>_vars
BodySettlesFairly == []<>(~BodyResumable) \/ []<><<BodySettles>>_vars


\* the event loop runs every continuation whose promise has settled and every
\* queued microtask
FetchLiveSpec == PayloadSpec /\ BodySettlesFairly /\ WF_vars(Deliver)

\* the response is the one whose body never arrives
Stalled(responses, n) == n <= Len(responses) /\ responses[n] = StalledResponse

\* the response holds one item to add and its body arrives
Deliverable(responses, n) ==
    /\ n <= Len(responses)
    /\ \E id \in NativeIds : ActionsOf(responses[n]) = <<AddAction(id)>>

\* the invocation for the n-th response has run to its end and its message
\* has been delivered
Completed(n) ==
    /\ n <= Len(input)
    /\ \A i \in 1..Len(pending) : pending[i].kind = "lookup" \/ pending[i].n # n
    /\ \E k \in 1..Len(calls) :
           \E id \in NativeIds :
               /\ ActionsOf(input[n]) = <<AddAction(id)>>
               /\ DeliversMessage(calls[k], id)

\* nothing has come from the stalled response: it is still awaited, and no
\* artifact bears its address
NoStalledOutput ==
    /\ \A n \in 1..Len(input) :
           Stalled(input, n) => \E i \in 1..Len(pending) : pending[i] = [kind |-> "body", n |-> n]
    /\ \A k \in 1..Len(recorded) : recorded[k].data # StalledUrl

\* C24: a response whose body never arrives yields no output and no record,
\* and every other response with an item is processed to its end and its
\* message delivered, whatever was handed over before it
C24_IndependentPayloads ==
    /\ []NoStalledOutput
    /\ \A n \in 1..MaxFetches : (Deliverable(input, n) ~> Completed(n))

\* the first response is stalled and the second has been delivered
C24_Witness ==
    /\ Len(input) = 2
    /\ Stalled(input, 1)
    /\ Deliverable(input, 2)
    /\ Completed(2)
    /\ \E i \in 1..Len(pending) : pending[i] = [kind |-> "body", n |-> 1]
    /\ Len(posted) = 1

\* two responses with one item each were handed over, both bodies awaited at
\* once, and the messages were delivered in the order of the calls
DeliveredInCallOrder ==
    /\ Len(input) = 2 /\ Len(posted) = 2
    /\ \E a, b \in NativeIds :
           /\ a # b
           /\ ActionsOf(input[1]) = <<AddAction(a)>> /\ ActionsOf(input[2]) = <<AddAction(b)>>
           /\ posted[1].id = MessageIdOf(a) /\ posted[2].id = MessageIdOf(b)

\* the same two responses, delivered in the other order
DeliveredInReverseOrder ==
    /\ Len(input) = 2 /\ Len(posted) = 2
    /\ \E a, b \in NativeIds :
           /\ a # b
           /\ ActionsOf(input[1]) = <<AddAction(a)>> /\ ActionsOf(input[2]) = <<AddAction(b)>>
           /\ posted[1].id = MessageIdOf(b) /\ posted[2].id = MessageIdOf(a)

=============================================================================
